---- MODULE Spec2Model ----
(***************************************************************************)
(* Model of the Harmonization scripts of the repository:                   *)
(*   match_ukbmd_to_1851_parishes.py      name normalizer, parish key      *)
(*                                        index, match resolver            *)
(*   build_rd_year_coverage_1851_1990.py  interval expander and coverage   *)
(*                                        aggregator                       *)
(*   construct_rd_from_1851_parishes_all_census.py  geometry constructor   *)
(*   impute_unmatched_to_nearest_1851_rd_centroid.py  centroid imputer     *)
(*                                                                         *)
(* A text is a sequence of one-character strings.  An accented letter is   *)
(* one element written with a trailing ^ ("o^" is o with circumflex).      *)
(* Each script is a batch program; its phases are the actions, and `pc`    *)
(* is the phase the script has reached.                                    *)
(***************************************************************************)
EXTENDS Integers, Sequences, FiniteSets, TLC

VARIABLES
    pc,           \* position of the running script
    nrm_in,       \* normalizer harness: the raw text and the mode
    nrm_out,      \* normalizer harness: results of one and of two applications
    par,          \* matcher: reference parish table (ID, PLA), in input order
    uk,           \* matcher: source membership table, later the concordance
    lookup,       \* matcher: the dict `lookup`, as <<key, ID>> pairs in insertion order
    stage1,       \* matcher: stage1_matches / stage1_methods, as <<name, ID, method>> entries
    stage1b,      \* matcher: stage1b_matches / stage1b_methods, same shape
    cov_src,      \* coverage: the concordance file as read (IN_CONC)
    cov_df,       \* coverage: the frame df, with start and dur once clipped
    cov_exp,      \* coverage: the expanded frame exp, one row per record and year
    cov_out,      \* coverage: the frame out written to OUT
    qa_summary,   \* coverage QA: the dict summary
    con,          \* constructor: the concordance file as read
    gpar,         \* constructor: the reference parishes with their polygons
    con_ix,       \* constructor: position of the loop in CENSUS_YEARS
    gpkg,         \* constructor: the layers written, by census year
    parish_area,  \* summary: the dict parish_area, as rows (ID, parish_area_km2)
    sum_ix,       \* summary: position of the loop in CENSUS_YEARS
    summary_rows, \* summary: the frames g appended so far
    rd_summary,   \* summary: the frame written to OUT_PATH
    df,           \* imputer: the summary frame
    df_columns,   \* imputer: the names of the columns of df
    targets,      \* imputer: the target centroids (layer TARGET_LAYER)
    official,     \* imputer: the official district centroids, by census year
    imp_ix,       \* imputer: position of the loop in CENSUS_YEARS
    out_frames,   \* imputer: the frames appended so far
    final         \* imputer: the frame written to SUMMARY_OUT

vars == <<pc, nrm_in, nrm_out, par, uk, lookup, stage1, stage1b,
          cov_src, cov_df, cov_exp, cov_out, qa_summary,
          con, gpar, con_ix, gpkg, parish_area, sum_ix, summary_rows, rd_summary,
          df, df_columns, targets, official, imp_ix, out_frames, final>>

nrmVars == <<nrm_in, nrm_out>>
matchVars == <<par, uk, lookup, stage1, stage1b>>
covVars == <<cov_src, cov_df, cov_exp, cov_out, qa_summary>>
sumVars == <<parish_area, sum_ix, summary_rows, rd_summary>>
conVars == <<con, gpar, con_ix, gpkg, sumVars>>
impVars == <<df, df_columns, targets, official, imp_ix, out_frames, final>>

\* the variables of a script that is not the one running
IdleNrm == nrm_in = [s |-> <<>>, keep_comma |-> FALSE] /\ nrm_out = <<>>
IdleMatch ==
    /\ par = <<>> /\ uk = <<>> /\ lookup = <<>>
    /\ stage1 = [matches |-> <<>>, methods |-> <<>>]
    /\ stage1b = [matches |-> <<>>, methods |-> <<>>]
IdleCov ==
    cov_src = <<>> /\ cov_df = <<>> /\ cov_exp = <<>> /\ cov_out = <<>> /\ qa_summary = <<>>
IdleSum == parish_area = <<>> /\ sum_ix = 0 /\ summary_rows = <<>> /\ rd_summary = <<>>
IdleCon == con = <<>> /\ gpar = <<>> /\ con_ix = 0 /\ gpkg = <<>> /\ IdleSum
IdleImp ==
    /\ df = <<>> /\ df_columns = {} /\ targets = <<>> /\ official = <<>>
    /\ imp_ix = 0 /\ out_frames = <<>> /\ final = <<>>

\* A missing value (NaN, pd.NA, None) is written in the type of its column, for
\* values of different types cannot be compared:
\*   NA       in a numeric column (years, parish IDs, coordinates)
\*   NaN      in a text column (parish, PLA and other names)
\*   NoTag    in a column of string tags (match_method, imputation_source_point)
NA == -1
NaN == <<"NaN">>
NoTag == "NaN"

----------------------------------------------------------------------------
(* Text primitives (Python str / re semantics on the modelled alphabet)    *)

LowerLetters ==
    {"a","b","c","d","e","f","g","h","i","j","k","l","m",
     "n","o","p","q","r","s","t","u","v","w","x","y","z"}

UpperToLower ==
    [c \in {"A","B","C","D","E","F","G","H","I","J","K","L","M",
            "N","O","P","Q","R","S","T","U","V","W","X","Y","Z"} |->
        CASE c = "A" -> "a" [] c = "B" -> "b" [] c = "C" -> "c" [] c = "D" -> "d"
          [] c = "E" -> "e" [] c = "F" -> "f" [] c = "G" -> "g" [] c = "H" -> "h"
          [] c = "I" -> "i" [] c = "J" -> "j" [] c = "K" -> "k" [] c = "L" -> "l"
          [] c = "M" -> "m" [] c = "N" -> "n" [] c = "O" -> "o" [] c = "P" -> "p"
          [] c = "Q" -> "q" [] c = "R" -> "r" [] c = "S" -> "s" [] c = "T" -> "t"
          [] c = "U" -> "u" [] c = "V" -> "v" [] c = "W" -> "w" [] c = "X" -> "x"
          [] c = "Y" -> "y" [] c = "Z" -> "z"]

\* accented letters: NFD gives the base letter plus a combining mark (category Mn)
AccentBase ==
    [c \in {"a^","e^","i^","o^","u^","w^","y^"} |->
        CASE c = "a^" -> "a" [] c = "e^" -> "e" [] c = "i^" -> "i" [] c = "o^" -> "o"
          [] c = "u^" -> "u" [] c = "w^" -> "w" [] c = "y^" -> "y"]

Digits == {"0","1","2","3","4","5","6","7","8","9"}

\* \w of Python's re on str
IsWord(c) ==
    \/ c \in LowerLetters
    \/ c \in DOMAIN UpperToLower
    \/ c \in DOMAIN AccentBase
    \/ c \in Digits
    \/ c = "_"

\* \s
IsSpace(c) == c = " "

\* str.lower()
LowerChar(c) == IF c \in DOMAIN UpperToLower THEN UpperToLower[c] ELSE c
Lower(s) == [i \in 1..Len(s) |-> LowerChar(s[i])]

\* str.strip()
Strip(s) ==
    IF \A i \in 1..Len(s) : IsSpace(s[i]) THEN <<>>
    ELSE LET a == CHOOSE i \in 1..Len(s) :
                     ~IsSpace(s[i]) /\ \A j \in 1..(i-1) : IsSpace(s[j])
             b == CHOOSE i \in 1..Len(s) :
                     ~IsSpace(s[i]) /\ \A j \in (i+1)..Len(s) : IsSpace(s[j])
         IN  SubSeq(s, a, b)

\* `p in s`
Contains(s, p) ==
    IF Len(p) = 1 THEN \E i \in 1..Len(s) : s[i] = p[1]
    ELSE \E i \in 1..(Len(s) - Len(p) + 1) : SubSeq(s, i, i + Len(p) - 1) = p

\* str.replace(p, t) for a non-empty p: leftmost, non-overlapping occurrences
RECURSIVE ReplaceFrom(_, _, _)
ReplaceFrom(s, p, t) ==
    IF Len(s) < Len(p) THEN s
    ELSE IF SubSeq(s, 1, Len(p)) = p
         THEN t \o ReplaceFrom(SubSeq(s, Len(p) + 1, Len(s)), p, t)
         ELSE <<Head(s)>> \o ReplaceFrom(Tail(s), p, t)

\* (a text without p is returned as it is; one character for one character is
\* replaced position by position)
Replace(s, p, t) ==
    IF ~Contains(s, p) THEN s
    ELSE IF Len(p) = 1 /\ Len(t) = 1
         THEN [i \in 1..Len(s) |-> IF s[i] = p[1] THEN t[1] ELSE s[i]]
         ELSE ReplaceFrom(s, p, t)

\* s.startswith(p)
StartsWith(s, p) == Len(s) >= Len(p) /\ SubSeq(s, 1, Len(p)) = p

\* index of the first occurrence of p in s (s.find(p) + 1); only used when p in s
Find(s, p) ==
    CHOOSE i \in 1..(Len(s) - Len(p) + 1) :
        /\ SubSeq(s, i, i + Len(p) - 1) = p
        /\ \A j \in 1..(i-1) : SubSeq(s, j, j + Len(p) - 1) # p

\* re.sub(r'\s+', ' ', s)
RECURSIVE CollapseSpaces(_)
CollapseSpaces(s) ==
    IF \A i \in 1..(Len(s) - 1) : ~(IsSpace(s[i]) /\ IsSpace(s[i+1])) THEN s
    ELSE IF IsSpace(Head(s))
         THEN IF Len(s) >= 2 /\ IsSpace(s[2])
              THEN CollapseSpaces(Tail(s))
              ELSE <<" ">> \o CollapseSpaces(Tail(s))
         ELSE <<Head(s)>> \o CollapseSpaces(Tail(s))

\* \b at the gap before position i of s (positions 1..Len(s)+1)
Boundary(s, i) ==
    LET before == i > 1 /\ IsWord(s[i-1])
        after  == i <= Len(s) /\ IsWord(s[i])
    IN  before # after

----------------------------------------------------------------------------
(* Name Normalizer                                                          *)

\* strip_accents: NFD, then drop the combining marks
StripAccentChar(c) == IF c \in DOMAIN AccentBase THEN AccentBase[c] ELSE c
strip_accents(s) == [i \in 1..Len(s) |-> StripAccentChar(s[i])]

\* re.sub(r'\[[^\]]*\]', ' ', s) for open = "[", close = "]"; likewise ( )
RECURSIVE StripSpan(_, _, _)
StripSpan(s, open, close) ==
    IF \A i \in 1..Len(s) : s[i] # open THEN s
    ELSE IF Head(s) = open /\ \E j \in 2..Len(s) : s[j] = close
         THEN LET j == CHOOSE k \in 2..Len(s) :
                           s[k] = close /\ \A m \in 2..(k-1) : s[m] # close
              IN  <<" ">> \o StripSpan(SubSeq(s, j + 1, Len(s)), open, close)
         ELSE <<Head(s)>> \o StripSpan(Tail(s), open, close)

strip_brackets(s) == StripSpan(StripSpan(s, "[", "]"), "(", ")")

\* number of consecutive "." of s from position i on
RECURSIVE DotRun(_, _)
DotRun(s, i) == IF i <= Len(s) /\ s[i] = "." THEN 1 + DotRun(s, i + 1) ELSE 0

\* length of the match of \bst[.]*\b at position i of s, 0 when there is none
\* ([.]* is greedy and backtracks until the closing \b holds)
StMatchLen(s, i) ==
    IF ~(Boundary(s, i) /\ i + 1 <= Len(s) /\ s[i] = "s" /\ s[i+1] = "t") THEN 0
    ELSE LET d == DotRun(s, i + 2)
             Hit == {k \in 0..d : Boundary(s, i + 2 + k)}
         IN  IF Hit = {} THEN 0
             ELSE 2 + (CHOOSE k \in Hit : \A m \in Hit : m <= k)

RECURSIVE StToSaint(_, _)
StToSaint(s, i) ==
    IF i > Len(s) THEN <<>>
    ELSE IF \A k \in i..Len(s) : StMatchLen(s, k) = 0 THEN SubSeq(s, i, Len(s))
    ELSE LET n == StMatchLen(s, i)
         IN  IF n > 0 THEN <<"s","a","i","n","t">> \o StToSaint(s, i + n)
             ELSE <<s[i]>> \o StToSaint(s, i + 1)

\* re.sub(r'\bWORD\b', t, s) for a WORD of word characters
RECURSIVE SubWord(_, _, _, _)
SubWord(s, w, t, i) ==
    IF i > Len(s) THEN <<>>
    ELSE IF ~Contains(s, w) THEN SubSeq(s, i, Len(s))
    ELSE IF /\ Boundary(s, i)
            /\ i + Len(w) - 1 <= Len(s)
            /\ SubSeq(s, i, i + Len(w) - 1) = w
            /\ Boundary(s, i + Len(w))
         THEN t \o SubWord(s, w, t, i + Len(w))
         ELSE <<s[i]>> \o SubWord(s, w, t, i + 1)

\* normalize_st_saint: the second substitution rewrites "saint" (any case) to
\* "saint"; its input is already lower case
normalize_st_saint(s) ==
    SubWord(StToSaint(s, 1), <<"s","a","i","n","t">>, <<"s","a","i","n","t">>, 1)

\* re.sub(r'[^\w\s,]', ' ', s) when keep_comma, re.sub(r'[^\w\s]', ' ', s) otherwise
StripPunct(s, keep_comma) ==
    [i \in 1..Len(s) |->
        IF IsWord(s[i]) \/ IsSpace(s[i]) \/ (keep_comma /\ s[i] = ",")
        THEN s[i] ELSE " "]

\* make_key_improved with the hyphen deleted instead of replaced by a space
make_key_improved_hyphen_joined(s0, keep_comma) ==
    LET s1 == Strip(Lower(s0))
        s2 == strip_accents(s1)
        s3 == strip_brackets(s2)
        s4 == normalize_st_saint(s3)
        s5 == Replace(s4, <<"&">>, <<" ","a","n","d"," ">>)
        s6 == SubWord(s5, <<"c","u","m">>, <<" ","w","i","t","h"," ">>, 1)
        s7 == Replace(Replace(s6, <<"-">>, <<>>), <<"/">>, <<" ">>)
        s8 == StripPunct(s7, keep_comma)
    IN  Strip(CollapseSpaces(s8))

make_key_improved(s0, keep_comma) ==
    LET s1 == Strip(Lower(s0))
        s2 == strip_accents(s1)
        s3 == strip_brackets(s2)
        s4 == normalize_st_saint(s3)
        s5 == Replace(s4, <<"&">>, <<" ","a","n","d"," ">>)
        s6 == SubWord(s5, <<"c","u","m">>, <<" ","w","i","t","h"," ">>, 1)
        s7 == Replace(Replace(s6, <<"-">>, <<" ">>), <<"/">>, <<" ">>)
        s8 == StripPunct(s7, keep_comma)
    IN  Strip(CollapseSpaces(s8))

----------------------------------------------------------------------------
(* Variant generators                                                       *)

Txt_with  == <<"w","i","t","h">>
Txt_on    == <<"o","n">>
Txt_nigh  == <<"n","i","g","h">>
Txt_lower == <<"l","o","w","e","r"," ">>
Txt_upper == <<"u","p","p","e","r"," ">>

\* the list built by a run of `if a in s: variants.append(s.replace(a, b))`
\* over the <<a, b>> pairs of `subs`, in order; a triple <<a, b, c>> stands for
\* the guard `a in s and c not in s`
RECURSIVE SubstVariants(_, _)
SubstVariants(s, subs) ==
    IF subs = <<>> THEN <<>>
    ELSE LET h == Head(subs)
             guard == Contains(s, h[1]) /\ (Len(h) = 3 => ~Contains(s, h[3]))
         IN  (IF guard THEN <<Replace(s, h[1], h[2])>> ELSE <<>>)
             \o SubstVariants(s, Tail(subs))

make_welsh_variants(s) ==
    SubstVariants(s, << <<<<"v">>, <<"f">>>>, <<<<"f">>, <<"v">>>>,
                        <<<<"i">>, <<"y">>>>, <<<<"y">>, <<"i">>>>,
                        <<<<"c","h">>, <<"g","h">>>>, <<<<"g","h">>, <<"c","h">>>> >>)

make_vowel_variants(s) ==
    SubstVariants(s, << <<<<"a">>, <<"e">>>>, <<<<"e">>, <<"a">>, <<"a">>>>,
                        <<<<"e">>, <<"i">>>>, <<<<"i">>, <<"e">>>> >>)

NoSpaces(s) == Replace(s, <<" ">>, <<>>)

\* [(v, method) for v in vs if v != s]
Tagged(vs, s, method) ==
    LET keep == SelectSeq(vs, LAMBDA v : v # s)
    IN  [i \in 1..Len(keep) |-> [key |-> keep[i], method |-> method]]

\* number of consecutive spaces of s from position i on
RECURSIVE SpaceRun(_, _)
SpaceRun(s, i) == IF i <= Len(s) /\ IsSpace(s[i]) THEN 1 + SpaceRun(s, i + 1) ELSE 0

\* \s+WORD\s+ matches at position i of s
ClauseAt(s, i, w) ==
    LET a == SpaceRun(s, i)
        j == i + a
    IN  /\ a >= 1
        /\ j + Len(w) - 1 <= Len(s)
        /\ SubSeq(s, j, j + Len(w) - 1) = w
        /\ SpaceRun(s, j + Len(w)) >= 1

\* re.sub(r'\s+WORD\s+.*', '', s).strip(); for "on" the optional (the\s+)? is
\* swallowed by the closing .* either way
StripClause(s, w) ==
    IF \E i \in 1..Len(s) : ClauseAt(s, i, w)
    THEN LET i == CHOOSE k \in 1..Len(s) :
                      ClauseAt(s, k, w) /\ \A m \in 1..(k-1) : ~ClauseAt(s, m, w)
         IN  Strip(SubSeq(s, 1, i - 1))
    ELSE Strip(s)

\* the with-clause block of make_variants
WithBlock(without_with) ==
    IF without_with # <<>>
    THEN << [key |-> without_with, method |-> "without_with"],
            [key |-> NoSpaces(without_with), method |-> "without_with_no_spaces"] >>
    ELSE <<>>

WithVariants(base) ==
    IF Contains(base, <<" ">> \o Txt_with \o <<" ">>)
    THEN WithBlock(StripClause(base, Txt_with))
    ELSE <<>>

\* the on- and nigh-clause blocks
ClauseBlock(without, method) ==
    IF without # <<>> THEN << [key |-> without, method |-> method] >> ELSE <<>>

OnVariants(base) ==
    IF Contains(base, <<" ">> \o Txt_on \o <<" ">>)
    THEN ClauseBlock(StripClause(base, Txt_on), "without_on")
    ELSE <<>>

NighVariants(base) ==
    IF Contains(base, <<" ">> \o Txt_nigh \o <<" ">>)
    THEN ClauseBlock(StripClause(base, Txt_nigh), "without_nigh")
    ELSE <<>>

\* the Lower/Upper prefix block of make_variants, for one prefix and its tag
PrefixKeys(without_prefix, joined, tag) ==
    IF without_prefix # <<>>
    THEN << [key |-> without_prefix, method |-> "without_" \o tag],
            [key |-> joined, method |-> "without_" \o tag \o "_no_spaces"] >>
         \o Tagged(make_welsh_variants(joined), joined, "without_" \o tag \o "_welsh")
    ELSE <<>>

WithoutPrefix(base) == Strip(SubSeq(base, 7, Len(base)))

PrefixBlock(base, tag) ==
    PrefixKeys(WithoutPrefix(base), NoSpaces(WithoutPrefix(base)), tag)

PrefixVariants(base) ==
    IF StartsWith(base, Txt_lower) THEN PrefixBlock(base, "lower")
    ELSE IF StartsWith(base, Txt_upper) THEN PrefixBlock(base, "upper")
    ELSE <<>>

\* the no-space block
NoSpaceBlock(base, no_spaces) ==
    IF no_spaces # base
    THEN << [key |-> no_spaces, method |-> "no_spaces"] >>
         \o Tagged(make_welsh_variants(no_spaces), no_spaces, "welsh_variant_no_spaces")
         \o Tagged(make_vowel_variants(no_spaces), no_spaces, "vowel_variant_no_spaces")
    ELSE <<>>

NoSpaceVariants(base) == NoSpaceBlock(base, NoSpaces(base))

\* the variants of a name whose base key is `base`, in list order
VariantsFromBase(base) ==
    << [key |-> base, method |-> "exact"] >>
    \o Tagged(make_welsh_variants(base), base, "welsh_variant")
    \o Tagged(make_vowel_variants(base), base, "vowel_variant")
    \o NoSpaceVariants(base)
    \o WithVariants(base)
    \o OnVariants(base)
    \o NighVariants(base)
    \o PrefixVariants(base)

\* make_variants: the ordered list of (key, method) pairs
make_variants(s) == VariantsFromBase(make_key_improved(s, FALSE))

----------------------------------------------------------------------------
(* Parish Key Index                                                         *)

Txt_and      == <<"a","n","d">>
Txt_division == <<"d","i","v","i","s","i","o","n">>
DivisionWords ==
    { <<"u","p","p","e","r">>, <<"l","o","w","e","r">>,
      <<"c","i","t","r","a">>, <<"u","l","t","r","a">> }

TextAt(s, i, w) == i + Len(w) - 1 <= Len(s) /\ SubSeq(s, i, i + Len(w) - 1) = w

\* length of the match of
\*   \s+(upper|lower|citra|ultra)\s+(and\s+)?(division|divisions?)
\* at position i of s, 0 when there is none.  The alternation takes its first
\* branch, "division", whenever that matches, so a following "s" stays.
SuffixMatchLen(s, i) ==
    LET a == SpaceRun(s, i)
        j == i + a
        b == SpaceRun(s, j + 5)
        k == j + 5 + b
        c == SpaceRun(s, k + 3)
    IN  IF a >= 1 /\ (\E w \in DivisionWords : TextAt(s, j, w)) /\ b >= 1
        THEN IF TextAt(s, k, Txt_and) /\ c >= 1 /\ TextAt(s, k + 3 + c, Txt_division)
             THEN (k + 3 + c + 8) - i
             ELSE IF TextAt(s, k, Txt_division) THEN (k + 8) - i
             ELSE 0
        ELSE 0

RECURSIVE StripSuffixFrom(_, _)
StripSuffixFrom(s, i) ==
    IF i > Len(s) THEN <<>>
    ELSE IF ~Contains(s, Txt_division) THEN SubSeq(s, i, Len(s))
    ELSE LET n == SuffixMatchLen(s, i)
         IN  IF n > 0 THEN StripSuffixFrom(s, i + n)
             ELSE <<s[i]>> \o StripSuffixFrom(s, i + 1)

\* par["key_no_suffix"]
key_no_suffix(key_no_comma) == Strip(StripSuffixFrom(key_no_comma, 1))

\* keys_to_add of one reference row: the three keys, then the no-space form of
\* each non-empty one
NoSpaceForms(keys) == [i \in 1..Len(keys) |-> NoSpaces(keys[i])]
WithNoSpaceForms(three) == three \o NoSpaceForms(SelectSeq(three, LAMBDA k : k # <<>>))
KeysOf(key_full, key_no_comma) ==
    WithNoSpaceForms(<<key_full, key_no_comma, key_no_suffix(key_no_comma)>>)
keys_to_add(pla) == KeysOf(make_key_improved(pla, TRUE), make_key_improved(pla, FALSE))

\* a key, then its Welsh and its vowel variants that differ from it; nothing
\* for the empty key
KeyAndVariants(key) ==
    IF key # <<>>
    THEN <<key>>
         \o SelectSeq(make_welsh_variants(key), LAMBDA v : v # key)
         \o SelectSeq(make_vowel_variants(key), LAMBDA v : v # key)
    ELSE <<>>

\* all_keys_with_variants of one reference row
RECURSIVE WithKeyVariants(_)
WithKeyVariants(keys) ==
    IF keys = <<>> THEN <<>>
    ELSE KeyAndVariants(Head(keys)) \o WithKeyVariants(Tail(keys))

\* all_keys_with_variants without the Welsh and vowel variants of the keys
all_keys_plain(pla) == SelectSeq(keys_to_add(pla), LAMBDA k : k # <<>>)

all_keys_with_variants(pla) == WithKeyVariants(keys_to_add(pla))

\* `key in lookup` and lookup[key] on the insertion-ordered dict
InLookup(lk, key) == \E i \in 1..Len(lk) : lk[i].key = key
LookupGet(lk, key) == lk[CHOOSE i \in 1..Len(lk) : lk[i].key = key].id

\* every (key, ID) the loop over par.iterrows() offers to the dict, in loop
\* order: row by row, each row's all_keys_with_variants in list order, the
\* empty key skipped (`if key and ...`)
Offers(keys, id) == [n \in 1..Len(keys) |-> [key |-> keys[n], id |-> id]]
RECURSIVE KeyStream(_, _)
KeyStream(rows, i) ==
    IF i > Len(rows) THEN <<>>
    ELSE Offers(SelectSeq(all_keys_with_variants(rows[i].PLA), LAMBDA k : k # <<>>),
                rows[i].ID)
         \o KeyStream(rows, i + 1)

\* the dict after `if key not in lookup: lookup[key] = id` over the offers ks:
\* an offer is stored exactly when no earlier offer had its key, and the dict
\* keeps the stored entries in insertion order
FirstOfferAt(ks) == {n \in 1..Len(ks) : \A m \in 1..(n - 1) : ks[m].key # ks[n].key}
RECURSIVE PickFrom(_, _, _)
PickFrom(ks, keep, n) ==
    IF n > Len(ks) THEN <<>>
    ELSE (IF n \in keep THEN <<ks[n]>> ELSE <<>>) \o PickFrom(ks, keep, n + 1)
StoreFirst(ks) == PickFrom(ks, FirstOfferAt(ks), 1)

\* BuildLookup with `lookup[key] = row["ID"]` unguarded: a key keeps its place
\* in the dict and takes the ID of the last row that offers it
LastOffer(ks, key) ==
    CHOOSE m \in 1..Len(ks) : ks[m].key = key /\ \A q \in (m+1)..Len(ks) : ks[q].key # key
RelabelLast(ks, first) ==
    [n \in 1..Len(first) |-> [key |-> first[n].key, id |-> ks[LastOffer(ks, first[n].key)].id]]
StoreLast(ks) == RelabelLast(ks, StoreFirst(ks))
BuildLookup_last_wins(rows) == StoreLast(KeyStream(rows, 1))

\* the lookup dict built from the reference rows
BuildLookup(rows) == StoreFirst(KeyStream(rows, 1))

----------------------------------------------------------------------------
(* match_ukbmd_to_1851_parishes.py: inputs                                  *)

\* PLA values of the reference table and parish values of the source table
Name_LLANFAIR == <<"L","L","A","N","F","A","I","R">>
Name_Llanvair == <<"L","l","a","n","v","a","i","r">>
Name_ShawdonAndWoodhouse == <<"S","h","a","w","d","o","n"," ","a","n","d"," ","W","o","o","d","h","o","u","s","e">>
Name_Shawdonwoodhousehamlet == <<"S","h","a","w","d","o","n","w","o","o","d","h","o","u","s","e","h","a","m","l","e","t">>
Name_Shawdonwoodhousehamlets == <<"S","h","a","w","d","o","n","w","o","o","d","h","o","u","s","e","h","a","m","l","e","t","s">>
Name_Besselsleigh == <<"B","e","s","s","e","l","s","l","e","i","g","h">>
Name_StokeUpperDivision == <<"S","t","o","k","e"," ","-"," ","U","P","P","E","R"," ","D","I","V","I","S","I","O","N">>
Name_Ffair == <<"F","f","a","i","r">>
Name_StokeCitraAndUltraDivisions ==
    <<"S","t","o","k","e"," ","-"," ","C","I","T","R","A"," ","A","N","D"," ",
      "U","L","T","R","A"," ","D","I","V","I","S","I","O","N","S">>
Name_Shawdon == <<"S","h","a","w","d","o","n">>
Name_BesselsLeigh == <<"B","e","s","s","e","l","s"," ","L","e","i","g","h">>
Name_Stoke == <<"S","t","o","k","e">>
Name_Zzyzx == <<"Z","z","y","z","x">>
Name_Shaw == <<"S","h","a","w">>
Name_Vfair == <<"V","f","a","i","r">>

\* from_year / to_year cells as read from the scraped CSV
Year_1837 == <<"1","8","3","7">>
Year_1840f == <<"1","8","4","0",".","0">>
Year_1900 == <<"1","9","0","0">>
Year_1860 == <<"1","8","6","0">>
Year_1870 == <<"1","8","7","0">>
Year_1855 == <<"1","8","5","5">>
Year_1850 == <<"1","8","5","0">>
Year_abt1840 == <<"a","b","t"," ","1","8","4","0">>
Year_1851 == <<"1","8","5","1">>

\* rows of 1851EngWalesParishandPlace.csv: ID is unique and never null
RefPool ==
    { [ID |-> 11, PLA |-> Name_LLANFAIR],
      [ID |-> 12, PLA |-> Name_Llanvair],
      [ID |-> 13, PLA |-> Name_ShawdonAndWoodhouse],
      [ID |-> 14, PLA |-> Name_Shawdonwoodhousehamlet],
      [ID |-> 15, PLA |-> Name_Shawdonwoodhousehamlets],
      [ID |-> 16, PLA |-> Name_Besselsleigh],
      [ID |-> 17, PLA |-> Name_StokeUpperDivision],
      [ID |-> 18, PLA |-> Name_Ffair],
      [ID |-> 19, PLA |-> Name_StokeCitraAndUltraDivisions] }

\* largest reference table explored
MaxPar == 2

\* the reference tables: up to MaxPar distinct rows of RefPool, in any order
RECURSIVE ParListsOfLen(_)
ParListsOfLen(n) ==
    IF n = 0 THEN {<<>>}
    ELSE {Append(p, r) : p \in ParListsOfLen(n - 1), r \in RefPool}
ParLists ==
    {p \in UNION {ParListsOfLen(n) : n \in 0..MaxPar} :
        \A i, j \in 1..Len(p) : i # j => p[i].ID # p[j].ID}

\* rows of ukbmd_all_districts_all_years.csv
UkRow(parish, district, from_year, to_year) ==
    [parish |-> parish, district |-> district, from_year |-> from_year, to_year |-> to_year]

UkRowPool ==
    { UkRow(Name_Llanvair,     "D1", Year_1837,    NaN),
      UkRow(Name_Llanvair,     "D2", Year_1900,    NaN),
      UkRow(Name_Shawdon,      "D1", Year_1840f,   Year_1900),
      UkRow(Name_BesselsLeigh, "D2", Year_1860,    Year_1870),
      UkRow(Name_Stoke,        "D2", NaN,          Year_1855),
      UkRow(Name_Zzyzx,        "D1", Year_1837,    Year_1850),
      UkRow(Name_Shaw,         "D2", Year_abt1840, NaN),
      UkRow(Name_Vfair,        "D1", Year_1837,    NaN),
      UkRow(NaN,               "D1", Year_1851,    Year_1851) }

\* the source tables: one row, or a second row under one of three first rows
\* (the same row twice too)
UkFirstRows ==
    { UkRow(Name_Llanvair, "D1", Year_1837,  NaN),
      UkRow(Name_Shawdon,  "D1", Year_1840f, Year_1900),
      UkRow(NaN,           "D1", Year_1851,  Year_1851) }
UkTables ==
    {<<r>> : r \in UkRowPool} \cup {<<r1, r2>> : r1 \in UkFirstRows, r2 \in UkRowPool}

\* names with a with-, on- or nigh-clause or a Lower/Upper prefix, and the
\* reference names their variants reach
Name_LowerStoke == <<"L","o","w","e","r"," ","S","t","o","k","e">>
Name_UpperStoke == <<"U","p","p","e","r"," ","S","t","o","k","e">>
Name_Lowerstoke == <<"L","o","w","e","r","s","t","o","k","e">>
Name_LowyrStoky == <<"L","o","w","y","r"," ","S","t","o","k","y">>
Name_StokeWithShaw == <<"S","t","o","k","e"," ","w","i","t","h"," ","S","h","a","w">>
Name_StokeOnShaw == <<"S","t","o","k","e"," ","o","n"," ","S","h","a","w">>
Name_StokeNighShaw == <<"S","t","o","k","e"," ","n","i","g","h"," ","S","h","a","w">>
Name_StokeWithShawOnDee ==
    <<"S","t","o","k","e"," ","w","i","t","h"," ","S","h","a","w"," ","o","n"," ","D","e","e">>
Name_LowerStokeHill == <<"L","o","w","e","r"," ","S","t","o","k","e"," ","H","i","l","l">>
Name_UpperStokeHill == <<"U","p","p","e","r"," ","S","t","o","k","e"," ","H","i","l","l">>
Name_StokeHillWithShaw ==
    <<"S","t","o","k","e"," ","H","i","l","l"," ","w","i","t","h"," ","S","h","a","w">>
Name_Stokehill == <<"S","t","o","k","e","h","i","l","l">>
Name_LowerFfair == <<"L","o","w","e","r"," ","F","f","a","i","r">>
Name_UpperFfair == <<"U","p","p","e","r"," ","F","f","a","i","r">>
Name_FfAir == <<"F","f"," ","A","i","r">>
Name_Ffeyr == <<"F","f","e","y","r">>
Name_StoKe == <<"S","t","o"," ","K","e">>
Name_Stoky == <<"S","t","o","k","y">>

VariantRefPool ==
    { [ID |-> 31, PLA |-> Name_Stoke],
      [ID |-> 32, PLA |-> Name_LowerStoke],
      [ID |-> 33, PLA |-> Name_Lowerstoke],
      [ID |-> 34, PLA |-> Name_StokeWithShaw],
      [ID |-> 35, PLA |-> Name_LowyrStoky],
      [ID |-> 36, PLA |-> Name_Stokehill],
      [ID |-> 37, PLA |-> Name_Ffeyr],
      [ID |-> 38, PLA |-> Name_Stoky] }

RECURSIVE VariantParListsOfLen(_)
VariantParListsOfLen(n) ==
    IF n = 0 THEN {<<>>}
    ELSE {Append(p, r) : p \in VariantParListsOfLen(n - 1), r \in VariantRefPool}
VariantParLists ==
    {p \in UNION {VariantParListsOfLen(n) : n \in 1..MaxPar} :
        \A i, j \in 1..Len(p) : i # j => p[i].ID # p[j].ID}

VariantNames ==
    { Name_LowerStoke, Name_UpperStoke, Name_StokeWithShaw, Name_StokeOnShaw,
      Name_StokeNighShaw, Name_StokeWithShawOnDee, Name_Stoke,
      Name_LowerStokeHill, Name_UpperStokeHill, Name_StokeHillWithShaw,
      Name_LowerFfair, Name_UpperFfair, Name_FfAir, Name_StoKe, Name_Ffair }

VariantUkTables ==
    {<<UkRow(n, "D1", Year_1837, NaN)>> : n \in VariantNames}
    \cup {<<UkRow(Name_LowerStoke, "D1", Year_1837, NaN), UkRow(n, "D2", Year_1900, NaN)>> :
             n \in {Name_Stoke, Name_UpperStoke, Name_StokeWithShawOnDee}}

----------------------------------------------------------------------------
(* Match Resolver                                                           *)

REF_YEAR == 1851

\* int(s) for a text of decimal digits
DigitVal(c) ==
    CASE c = "0" -> 0 [] c = "1" -> 1 [] c = "2" -> 2 [] c = "3" -> 3 [] c = "4" -> 4
      [] c = "5" -> 5 [] c = "6" -> 6 [] c = "7" -> 7 [] c = "8" -> 8 [] c = "9" -> 9
RECURSIVE ParseInt(_)
ParseInt(s) ==
    IF s = <<>> THEN 0 ELSE 10 * ParseInt(SubSeq(s, 1, Len(s) - 1)) + DigitVal(s[Len(s)])

\* str.isdigit()
IsDigitText(s) == s # <<>> /\ \A i \in 1..Len(s) : s[i] \in Digits

\* coerce_year: x is NaN or the text str(x)
IntOrNA(s) == IF IsDigitText(s) THEN ParseInt(s) ELSE NA
coerce_year(x) ==
    IF x = NaN THEN NA ELSE IntOrNA(Replace(Strip(x), <<".","0">>, <<>>))

\* the eligible_1851 column, for coerced years
eligible_1851(from_year, to_year) ==
    /\ from_year # NA
    /\ from_year <= REF_YEAR
    /\ (to_year = NA \/ to_year >= REF_YEAR)

\* Series.unique(): the values in order of first appearance
RECURSIVE Unique(_)
Unique(s) ==
    IF s = <<>> THEN <<>>
    ELSE LET rest == Unique(SubSeq(s, 1, Len(s) - 1))
             last == s[Len(s)]
         IN  IF \E i \in 1..Len(rest) : rest[i] = last THEN rest ELSE Append(rest, last)

uk_parishes(rows) == Unique([i \in 1..Len(rows) |-> rows[i].parish])

\* the inner loop of stage 1: the first variant that is a key of lookup, as the
\* pair stored in stage1_matches / stage1_methods; Miss when the loop ends without break
Miss == [id |-> NA, method |-> NoTag]

HitOf(lk, variant) == [id |-> LookupGet(lk, variant.key), method |-> variant.method]

\* FirstHit without the break: the last variant found in the index decides
FirstHit_no_break(lk, variants) ==
    IF \E i \in 1..Len(variants) : InLookup(lk, variants[i].key)
    THEN HitOf(lk, variants[CHOOSE k \in 1..Len(variants) :
                               /\ InLookup(lk, variants[k].key)
                               /\ \A m \in (k+1)..Len(variants) : ~InLookup(lk, variants[m].key)])
    ELSE Miss

\* the first variant, in list order, that is a key of the lookup
FirstHit(lk, variants) ==
    IF \E i \in 1..Len(variants) : InLookup(lk, variants[i].key)
    THEN HitOf(lk, variants[CHOOSE k \in 1..Len(variants) :
                               /\ InLookup(lk, variants[k].key)
                               /\ \A m \in 1..(k-1) : ~InLookup(lk, variants[m].key)])
    ELSE Miss

\* make_variants, tabulated once over the source names explored
VariantsOf ==
    [n \in ({r.parish : r \in UkRowPool} \ {NaN}) \cup VariantNames |-> make_variants(n)]

\* the body of the stage 1 loop for one name
Stage1Result(lk, parish_name) == FirstHit(lk, VariantsOf[parish_name])

\* SubstringOk with the length test written `< 15`
SubstringOk_below_15(base_key, key_1851) ==
    /\ Contains(key_1851, base_key)
    /\ base_key # key_1851
    /\ Len(key_1851) - Len(base_key) < 15

SubstringOk(base_key, key_1851) ==
    /\ Contains(key_1851, base_key)
    /\ base_key # key_1851
    /\ Len(key_1851) - Len(base_key) <= 15


\* SubstringScan recording the method as "substring"
SubstringScan_tag_substring(lk, base_key, min_len) ==
    IF Len(base_key) < min_len THEN Miss
    ELSE IF \E i \in 1..Len(lk) : SubstringOk(base_key, lk[i].key)
    THEN [id |-> lk[CHOOSE k \in 1..Len(lk) :
                      /\ SubstringOk(base_key, lk[k].key)
                      /\ \A m \in 1..(k-1) : ~SubstringOk(base_key, lk[m].key)].id,
          method |-> "substring"]
    ELSE Miss

\* the scan of par_keys_list for one no-space key of at least min_len
\* characters: the first key that passes the test decides
SubstringScan(lk, base_key, min_len) ==
    IF Len(base_key) < min_len THEN Miss
    ELSE IF \E i \in 1..Len(lk) : SubstringOk(base_key, lk[i].key)
    THEN [id |-> lk[CHOOSE k \in 1..Len(lk) :
                      /\ SubstringOk(base_key, lk[k].key)
                      /\ \A m \in 1..(k-1) : ~SubstringOk(base_key, lk[m].key)].id,
          method |-> "substring_match"]
    ELSE Miss

\* min(insertions, deletions, substitutions)
Min3(a, b, c) == IF a <= b /\ a <= c THEN a ELSE IF b <= c THEN b ELSE c

\* current_row of levenshtein_distance for the character c1 in row i, filled
\* from position j on
RECURSIVE LevRow(_, _, _, _, _)
LevRow(previous_row, current_row, c1, s2, j) ==
    IF j > Len(s2) THEN current_row
    ELSE LevRow(previous_row,
                Append(current_row,
                       Min3(previous_row[j + 1] + 1, current_row[j] + 1,
                            previous_row[j] + (IF c1 # s2[j] THEN 1 ELSE 0))),
                c1, s2, j + 1)

\* the last row of the table, from row i on (a row has Len(s2) + 1 entries)
RECURSIVE LevRows(_, _, _, _)
LevRows(previous_row, s1, s2, i) ==
    IF i > Len(s1) \/ Len(previous_row) # Len(s2) + 1 THEN previous_row
    ELSE LevRows(LevRow(previous_row, <<i>>, s1[i], s2, 1), s1, s2, i + 1)

LevLongFirst(s1, s2) ==
    IF Len(s2) = 0 THEN Len(s1)
    ELSE LevRows([k \in 1..(Len(s2) + 1) |-> k - 1], s1, s2, 1)[Len(s2) + 1]

\* levenshtein_distance: defined by the script, called by none of its stages
levenshtein_distance(s1, s2) ==
    IF Len(s1) < Len(s2) THEN LevLongFirst(s2, s1) ELSE LevLongFirst(s1, s2)

\* Stage1bResult followed by a fuzzy stage: a name the scan leaves takes the
\* first index key within edit distance 2 of its no-space key
Stage1bResult_then_fuzzy(lk, parish_name) ==
    IF SubstringScan(lk, NoSpaces(make_key_improved(parish_name, FALSE)), 5) # Miss
    THEN SubstringScan(lk, NoSpaces(make_key_improved(parish_name, FALSE)), 5)
    ELSE IF \E i \in 1..Len(lk) :
                levenshtein_distance(NoSpaces(make_key_improved(parish_name, FALSE)), lk[i].key) <= 2
    THEN [id |-> lk[CHOOSE k \in 1..Len(lk) :
                      /\ levenshtein_distance(NoSpaces(make_key_improved(parish_name, FALSE)),
                                              lk[k].key) <= 2
                      /\ \A m \in 1..(k-1) :
                            levenshtein_distance(NoSpaces(make_key_improved(parish_name, FALSE)),
                                                 lk[m].key) > 2].id,
          method |-> "fuzzy"]
    ELSE Miss

\* Stage1bResult without the minimum length of the name
Stage1bResult_any_length(lk, parish_name) ==
    SubstringScan(lk, NoSpaces(make_key_improved(parish_name, FALSE)), 0)

\* the body of the stage 1b loop for one name that stage 1 left unmatched
Stage1bResult(lk, parish_name) ==
    SubstringScan(lk, NoSpaces(make_key_improved(parish_name, FALSE)), 5)

----------------------------------------------------------------------------
(* match_ukbmd_to_1851_parishes.py: the script                              *)

EmptyDict == [matches |-> <<>>, methods |-> <<>>]

\* Series.map(dict): a value that is no key of the dict maps to a missing value
MapDict(d, x, missing) == IF x \in DOMAIN d THEN d[x] ELSE missing

\* {**a, **b}
MergeDicts(a, b) ==
    [x \in DOMAIN a \cup DOMAIN b |-> IF x \in DOMAIN b THEN b[x] ELSE a[x]]

\* VisitedNames restricted to the rows eligible in 1851
VisitedNames_eligible(rows) ==
    {n \in {rows[i].parish : i \in {j \in 1..Len(rows) : rows[j].eligible_1851}} : n # NaN}

\* VisitedNames stopping after the name of the first row
VisitedNames_first_row(rows) ==
    {n \in {rows[i].parish : i \in {j \in 1..Len(rows) : j = 1}} : n # NaN}

\* the names the two stage loops visit: uk["parish"].unique() without NaN
VisitedNames(rows) == {n \in {rows[i].parish : i \in 1..Len(rows)} : n # NaN}

\* the pair of dicts a stage loop leaves, from the result of its body for each
\* name visited: only the names that hit are keys
HitNames(res) == {n \in DOMAIN res : res[n].id # NA}
StageDicts(res) ==
    [matches |-> [n \in HitNames(res) |-> res[n].id],
     methods |-> [n \in HitNames(res) |-> res[n].method]]

\* [1/6]: read both tables, coerce the years, add eligible_1851
LoadedRow(row, from_year, to_year) ==
    [parish |-> row.parish, district |-> row.district,
     from_year |-> from_year, to_year |-> to_year,
     eligible_1851 |-> eligible_1851(from_year, to_year)]

LoadData ==
    /\ pc = "match_load"
    /\ uk' = [i \in 1..Len(uk) |->
                LoadedRow(uk[i], coerce_year(uk[i].from_year), coerce_year(uk[i].to_year))]
    /\ pc' = "match_lookup"
    /\ UNCHANGED <<par, lookup, stage1, stage1b, nrmVars, covVars, conVars, impVars>>

\* BuildLookup, tabulated once over the reference tables explored
LookupOf == [p \in ParLists \cup VariantParLists |-> BuildLookup(p)]

\* [2/6]: build the lookup dictionary
BuildParishLookup ==
    /\ pc = "match_lookup"
    /\ lookup' = LookupOf[par]
    /\ pc' = "match_stage1"
    /\ UNCHANGED <<par, uk, stage1, stage1b, nrmVars, covVars, conVars, impVars>>

\* [3/6]: stage 1, exact + variants
Stage1 ==
    /\ pc = "match_stage1"
    /\ stage1' = StageDicts([n \in VisitedNames(uk) |-> Stage1Result(lookup, n)])
    /\ pc' = "match_stage1b"
    /\ UNCHANGED <<par, uk, lookup, stage1b, nrmVars, covVars, conVars, impVars>>

\* [3b/6]: stage 1b, substring matching of the names stage 1 left
Stage1b ==
    /\ pc = "match_stage1b"
    /\ stage1b' = StageDicts([n \in VisitedNames(uk) \ DOMAIN stage1.matches |->
                                 Stage1bResult(lookup, n)])
    /\ pc' = "match_combine"
    /\ UNCHANGED <<par, uk, lookup, stage1, nrmVars, covVars, conVars, impVars>>

\* uk.merge(par[["ID", "PLA"]], left_on="matched_1851_index", right_on="ID", how="left")
\* for one left row: one output row per reference row with that ID, or one
\* row with ID and PLA null
MergedRow(row, id, pla) ==
    [parish |-> row.parish, district |-> row.district,
     from_year |-> row.from_year, to_year |-> row.to_year,
     eligible_1851 |-> row.eligible_1851,
     matched_1851_index |-> row.matched_1851_index,
     matched |-> row.matched, match_method |-> row.match_method,
     ID |-> id, PLA |-> pla]

MergeWith(row, hits) ==
    IF hits = <<>> THEN <<MergedRow(row, NA, NaN)>>
    ELSE [k \in 1..Len(hits) |-> MergedRow(row, hits[k].ID, hits[k].PLA)]

MergeRow(row, ref) == MergeWith(row, SelectSeq(ref, LAMBDA p : p.ID = row.matched_1851_index))

RECURSIVE MergeRows(_, _, _)
MergeRows(rows, ref, i) ==
    IF i > Len(rows) THEN <<>>
    ELSE MergeRow(rows[i], ref) \o MergeRows(rows, ref, i + 1)

\* Combined with `matched` restricted to the rows eligible in 1851
Combined_eligible_only(row, all_matches, all_methods) ==
    [parish |-> row.parish, district |-> row.district,
     from_year |-> row.from_year, to_year |-> row.to_year,
     eligible_1851 |-> row.eligible_1851,
     matched_1851_index |-> MapDict(all_matches, row.parish, NA),
     matched |-> (MapDict(all_matches, row.parish, NA) # NA /\ row.eligible_1851),
     match_method |-> MapDict(all_methods, row.parish, NoTag)]

\* the three concordance columns of one row, from the combined dicts
Combined(row, all_matches, all_methods) ==
    [parish |-> row.parish, district |-> row.district,
     from_year |-> row.from_year, to_year |-> row.to_year,
     eligible_1851 |-> row.eligible_1851,
     matched_1851_index |-> MapDict(all_matches, row.parish, NA),
     matched |-> (MapDict(all_matches, row.parish, NA) # NA),
     match_method |-> MapDict(all_methods, row.parish, NoTag)]

\* [5/6]: combine the stages, map them onto the rows, merge the reference names
CombineResults ==
    /\ pc = "match_combine"
    /\ uk' = MergeRows([i \in 1..Len(uk) |->
                            Combined(uk[i], MergeDicts(stage1.matches, stage1b.matches),
                                     MergeDicts(stage1.methods, stage1b.methods))],
                        par, 1)
    /\ pc' = "match_done"
    /\ UNCHANGED <<par, lookup, stage1, stage1b, nrmVars, covVars, conVars, impVars>>

InitMatch ==
    /\ pc = "match_load"
    /\ par \in ParLists
    /\ uk \in UkTables
    /\ lookup = <<>>
    /\ stage1 = EmptyDict
    /\ stage1b = EmptyDict
    /\ IdleNrm /\ IdleCov /\ IdleCon /\ IdleImp

NextMatch == LoadData \/ BuildParishLookup \/ Stage1 \/ Stage1b \/ CombineResults

SpecMatch == InitMatch /\ [][NextMatch]_vars

\* the same script on names with clauses and prefixes
InitVariants ==
    /\ pc = "match_load"
    /\ par \in VariantParLists
    /\ uk \in VariantUkTables
    /\ lookup = <<>>
    /\ stage1 = EmptyDict
    /\ stage1b = EmptyDict
    /\ IdleNrm /\ IdleCov /\ IdleCon /\ IdleImp

SpecVariants == InitVariants /\ [][NextMatch]_vars

----------------------------------------------------------------------------
(* Name Normalizer on its own: make_key_improved applied to a raw text,     *)
(* then to its own result                                                   *)

NormTokens ==
    { <<"s","t">>, <<"c","u","m">>, <<"s">>, <<"t">>, <<"x">>, <<"S">>, <<"o^">>,
      <<".">>, <<"-">>, <<" ">>, <<"(">>, <<")">>, <<"&">>, <<",">> }

\* most tokens in a raw text
MaxToks == 3

RECURSIVE TokenTexts(_)
TokenTexts(n) ==
    IF n = 0 THEN {<<>>}
    ELSE LET shorter == TokenTexts(n - 1)
         IN  shorter \cup {s \o tok : s \in shorter, tok \in NormTokens}

\* one call of make_key_improved: on the raw text first, on the last result after
Normalize ==
    /\ pc = "normalize"
    /\ Len(nrm_out) < 2
    /\ LET arg == IF nrm_out = <<>> THEN nrm_in.s ELSE nrm_out[Len(nrm_out)]
       IN  nrm_out' = Append(nrm_out, make_key_improved(arg, nrm_in.keep_comma))
    /\ UNCHANGED <<pc, nrm_in, matchVars, covVars, conVars, impVars>>

InitNormalize ==
    /\ pc = "normalize"
    /\ nrm_in \in [s : TokenTexts(MaxToks), keep_comma : BOOLEAN]
    /\ nrm_out = <<>>
    /\ IdleMatch /\ IdleCov /\ IdleCon /\ IdleImp

NextNormalize == Normalize

SpecNormalize == InitNormalize /\ [][NextNormalize]_vars

----------------------------------------------------------------------------
(* build_rd_year_coverage_1851_1990.py: interval expander and coverage     *)
(* aggregator; qa_rd_year_coverage_1851_1990.py: the integrity check        *)

Y0 == 1851
Y1 == 1990

\* a missing district or parish name, and a missing cell of the matched column
NoName == "NaN"

Max(a, b) == IF a >= b THEN a ELSE b
Min(a, b) == IF a <= b THEN a ELSE b

\* pd.to_numeric(col, errors="coerce").fillna(default).astype(int)
CleanYear(x, default) == IF x = NA THEN default ELSE x

\* df["matched"].fillna(False).astype(bool) on a column of True / False / missing
CleanMatched(m) == m = "True"

\* one concordance row as the script reads it
CovRow(district, parish, from_year, to_year, matched) ==
    [district |-> district, parish |-> parish,
     from_year |-> from_year, to_year |-> to_year, matched |-> matched]

\* the concordance rows explored: intervals inside, across and outside the
\* window, open and inverted ones, in two districts and with a missing district
CovRowPool ==
    { CovRow("D1", "P", 1800, 1860, "True"),
      CovRow("D1", "Q", 1800, 1860, "False"),
      CovRow("D1", "P", 1851, 1851, "NaN"),
      CovRow("D2", "P", 1851, 1851, "True"),
      CovRow("D1", "Q", NA, 1830, "True"),
      CovRow("D2", "Q", 1989, NA, "False"),
      CovRow("D1", "P", 1860, 1855, "False"),
      CovRow("D1", NoName, 1989, NA, "True"),
      CovRow("D2", "P", NA, NA, "False"),
      CovRow(NoName, "Q", 1851, 1851, "True"),
      CovRow("D2", "Q", 1991, 9999, "NaN"),
      CovRow("D1", "P", 1855, 1856, "True") }

\* most rows of a concordance file
MaxRec == 2

CovTables == UNION {[1..n -> CovRowPool] : n \in 1..MaxRec}

\* the district names in sorted order (groupby sorts its keys)
DistrictOrder == <<"D1", "D2">>

CleanedRow(row) ==
    [district |-> row.district, parish |-> row.parish,
     from_year |-> CleanYear(row.from_year, 1837),
     to_year |-> CleanYear(row.to_year, 9999),
     matched |-> CleanMatched(row.matched)]

\* lines 14-22: read the concordance, clean the years and the matched column
CovClean ==
    /\ pc = "cov_clean"
    /\ cov_df' = [i \in 1..Len(cov_src) |-> CleanedRow(cov_src[i])]
    /\ pc' = "cov_clip"
    /\ UNCHANGED <<cov_src, cov_exp, cov_out, qa_summary, nrmVars, matchVars, conVars, impVars>>

\* Dur with the last year left out
Dur_exclusive(start, end) == end - start

\* dur = end - start + 1
Dur(start, end) == end - start + 1

ClippedRow(row, start, end) ==
    [district |-> row.district, parish |-> row.parish, matched |-> row.matched,
     from_year |-> row.from_year, to_year |-> row.to_year,
     start |-> start, dur |-> Dur(start, end)]

Clipped(rows) ==
    [i \in 1..Len(rows) |->
        ClippedRow(rows[i], Max(rows[i].from_year, Y0), Min(rows[i].to_year, Y1))]

\* lines 24-32: bound the intervals to [Y0, Y1], keep the rows with dur > 0
CovClip ==
    /\ pc = "cov_clip"
    /\ cov_df' = SelectSeq(Clipped(cov_df), LAMBDA r : r.dur > 0)
    /\ pc' = "cov_expand"
    /\ UNCHANGED <<cov_src, cov_exp, cov_out, qa_summary, nrmVars, matchVars, conVars, impVars>>

\* the rows of exp that one kept row gives: years start, ..., start + dur - 1
RowYears(row) ==
    [k \in 1..row.dur |->
        [district |-> row.district, parish |-> row.parish, matched |-> row.matched,
         year |-> row.start + (k - 1)]]

RECURSIVE ExpandFrom(_, _)
ExpandFrom(rows, i) ==
    IF i > Len(rows) THEN <<>> ELSE RowYears(rows[i]) \o ExpandFrom(rows, i + 1)

\* lines 34-41: np.concatenate of an empty list raises ValueError, so the script
\* stops without output when no row was kept
CovExpand ==
    /\ pc = "cov_expand"
    /\ IF cov_df = <<>>
       THEN pc' = "cov_failed" /\ UNCHANGED cov_exp
       ELSE pc' = "cov_aggregate" /\ cov_exp' = ExpandFrom(cov_df, 1)
    /\ UNCHANGED <<cov_src, cov_df, cov_out, qa_summary, nrmVars, matchVars, conVars, impVars>>

\* ActiveRows counting the distinct parishes of the group
ActiveRows_unique(grp) == Cardinality({grp[i].parish : i \in 1..Len(grp)})

\* ("parish", "size")
ActiveRows(grp) == Len(grp)

\* ("parish", "nunique"): missing names are not counted
UniqueParishes(grp) == Cardinality({grp[i].parish : i \in 1..Len(grp)} \ {NoName})

\* MatchedRows counting every row of the group
MatchedRows_all(grp) == Len(grp)

\* ("matched", "sum")
MatchedRows(grp) == Cardinality({i \in 1..Len(grp) : grp[i].matched})

\* exp[exp["matched"]]
IsMatched(r) == r.matched

\* the row of out for one (year, district) group; matched_share is the
\* quotient num / den
OutRow(year, district, grp) ==
    [year |-> year, district |-> district,
     active_parish_rows |-> ActiveRows(grp),
     active_unique_parishes |-> UniqueParishes(grp),
     matched_parish_rows |-> MatchedRows(grp),
     matched_unique_parishes |-> UniqueParishes(SelectSeq(grp, IsMatched)),
     matched_share |-> [num |-> MatchedRows(grp), den |-> ActiveRows(grp)],
     usable_1851_backbone |-> IF MatchedRows(grp) > 0 THEN 1 ELSE 0]

GroupRow(year, district, grp) == IF grp = <<>> THEN <<>> ELSE <<OutRow(year, district, grp)>>

\* the groups of one year, in district order; rows with a missing district
\* belong to no group
RECURSIVE YearGroups(_, _, _)
YearGroups(rows, year, d) ==
    IF d > Len(DistrictOrder) THEN <<>>
    ELSE GroupRow(year, DistrictOrder[d],
                  SelectSeq(rows, LAMBDA r : r.district = DistrictOrder[d]))
         \o YearGroups(rows, year, d + 1)

\* the groups of the years lo..hi in year order, by halving the range; rows
\* holds the rows of exp of those years
RECURSIVE Aggregate(_, _, _)
Aggregate(rows, lo, hi) ==
    IF rows = <<>> THEN <<>>
    ELSE IF lo = hi THEN YearGroups(rows, lo, 1)
    ELSE Aggregate(SelectSeq(rows, LAMBDA r : r.year <= (lo + hi) \div 2), lo, (lo + hi) \div 2)
         \o Aggregate(SelectSeq(rows, LAMBDA r : r.year > (lo + hi) \div 2), (lo + hi) \div 2 + 1, hi)

\* lines 43-61: group by (year, district), count, derive share and flag, save
CovAggregate ==
    /\ pc = "cov_aggregate"
    /\ cov_out' = Aggregate(cov_exp, Y0, Y1)
    /\ pc' = "cov_done"
    /\ UNCHANGED <<cov_src, cov_df, cov_exp, qa_summary, nrmVars, matchVars, conVars, impVars>>

\* num / den compared with 0 and with 1 (den > 0 in every row of out)
ShareBelow0(q) == q.num < 0
ShareAbove1(q) == q.num > q.den

\* the rows of `bad` in the QA script
IsBad(r) ==
    \/ r.active_parish_rows <= 0
    \/ r.matched_parish_rows < 0
    \/ r.matched_parish_rows > r.active_parish_rows
    \/ ShareBelow0(r.matched_share)
    \/ ShareAbove1(r.matched_share)

\* the rows of `flag_inconsistent` in the QA script
FlagInconsistent(r) == r.usable_1851_backbone = 1 /\ r.matched_parish_rows = 0

\* the QA script on the saved coverage file, up to usable1_but_matched0;
\* int(df["year"].min()) raises on a file without rows
QaCheck ==
    /\ pc = "cov_done"
    /\ IF cov_out = <<>>
       THEN pc' = "qa_failed" /\ UNCHANGED qa_summary
       ELSE /\ pc' = "qa_done"
            /\ qa_summary' = [n_rows |-> Len(cov_out),
                              rows_violating_constraints |-> Len(SelectSeq(cov_out, IsBad)),
                              usable1_but_matched0 |->
                                  Len(SelectSeq(cov_out, FlagInconsistent))]
    /\ UNCHANGED <<cov_src, cov_df, cov_exp, cov_out, nrmVars, matchVars, conVars, impVars>>

InitCoverage ==
    /\ pc = "cov_clean"
    /\ cov_src \in CovTables
    /\ cov_df = <<>>
    /\ cov_exp = <<>>
    /\ cov_out = <<>>
    /\ qa_summary = <<>>
    /\ IdleNrm /\ IdleMatch /\ IdleCon /\ IdleImp

NextCoverage == CovClean \/ CovClip \/ CovExpand \/ CovAggregate \/ QaCheck

SpecCoverage == InitCoverage /\ [][NextCoverage]_vars

----------------------------------------------------------------------------
(* construct_rd_from_1851_parishes_all_census.py: one dissolved layer per    *)
(* census year                                                              *)

CENSUS_YEARS == <<1851, 1861, 1871, 1881, 1891, 1901, 1911>>

\* coerce_year of the constructor: x is NaN or the text str(x)
coerce_year_construct(x) ==
    IF x = NaN THEN NA ELSE IntOrNA(Replace(Strip(x), <<".","0">>, <<>>))

\* one row of the concordance; a polygon is the set of the grid cells it covers
ConRow(district, ID, matched, from_year, to_year) ==
    [district |-> district, ID |-> ID, matched |-> matched,
     from_year |-> from_year, to_year |-> to_year]

\* concordance rows as the matcher writes them: matched exactly when ID is set
ConRowPool ==
    { ConRow("D1", 11, TRUE, Year_1840f, NaN),
      ConRow("D1", 12, TRUE, NaN, NaN),
      ConRow("D1", 12, TRUE, Year_1860, Year_1900),
      ConRow("D2", 12, TRUE, Year_1851, Year_1851),
      ConRow("D2", 13, TRUE, Year_1837, Year_1870),
      ConRow("D1", NA, FALSE, Year_1837, NaN),
      ConRow("D2", NA, FALSE, Year_1900, NaN),
      ConRow("D1", 13, TRUE, Year_abt1840, NaN),
      ConRow("D2", 11, TRUE, Year_1900, NaN),
      ConRow("D1", 11, TRUE, Year_1837, Year_1860) }

\* most rows of the concordance
MaxCon == 2

ConTables == UNION {[1..n -> ConRowPool] : n \in 1..MaxCon}

\* rows of the parish file: ID and polygon; one row has no numeric ID
ParGeoRows ==
    << [ID |-> 11, geometry |-> {1, 2}],
       [ID |-> 12, geometry |-> {2, 3}],
       [ID |-> NA, geometry |-> {5}],
       [ID |-> 13, geometry |-> {4}] >>

\* pd.to_numeric(col, errors="coerce") followed by notna()
NumericID(rows) == SelectSeq(rows, LAMBDA r : r.ID # NA)

\* lines 64-82: read the concordance and the parish polygons
ConLoad ==
    /\ pc = "con_load"
    /\ gpar' = NumericID(ParGeoRows)
    /\ con_ix' = 1
    /\ pc' = "con_loop"
    /\ UNCHANGED <<con, gpkg, sumVars, nrmVars, matchVars, covVars, impVars>>

\* the mask `active` of filter_membership, for coerced years
active_at(from_year, to_year, year) ==
    /\ from_year # NA
    /\ from_year <= year
    /\ (to_year = NA \/ to_year >= year)

ActiveMatched(r, year) ==
    /\ active_at(coerce_year_construct(r.from_year), coerce_year_construct(r.to_year), year)
    /\ r.matched

AppendNew(rows, r) == IF \E i \in 1..Len(rows) : rows[i] = r THEN rows ELSE Append(rows, r)

\* DataFrame.drop_duplicates(): the first of equal rows is kept
RECURSIVE drop_duplicates(_)
drop_duplicates(rows) ==
    IF rows = <<>> THEN <<>>
    ELSE AppendNew(drop_duplicates(SubSeq(rows, 1, Len(rows) - 1)), rows[Len(rows)])

IdDistrict(rows) == [i \in 1..Len(rows) |-> [ID |-> rows[i].ID, district |-> rows[i].district]]

filter_membership(c, year) ==
    NumericID(drop_duplicates(IdDistrict(SelectSeq(c, LAMBDA r : ActiveMatched(r, year)))))

JoinedRows(g, cs) ==
    [k \in 1..Len(cs) |-> [ID |-> g.ID, geometry |-> g.geometry, district |-> cs[k].district]]

\* gpar.merge(con_y, on="ID", how="inner")
RECURSIVE MergeOnID(_, _, _)
MergeOnID(gp, con_y, i) ==
    IF i > Len(gp) THEN <<>>
    ELSE JoinedRows(gp[i], SelectSeq(con_y, LAMBDA c : c.ID = gp[i].ID))
         \o MergeOnID(gp, con_y, i + 1)

\* the district names in sorted order (dissolve sorts its groups)
DissolveOrder == <<"D1", "D2">>

\* the dissolved row of one district with its count of distinct parish IDs
DissolvedRow(district, grp) ==
    [district |-> district,
     geometry |-> UNION {grp[i].geometry : i \in 1..Len(grp)},
     n_parishes_matched |-> Cardinality({grp[i].ID : i \in 1..Len(grp)})]

DissolvedGroup(district, grp) ==
    IF grp = <<>> THEN <<>> ELSE <<DissolvedRow(district, grp)>>

RECURSIVE Dissolve(_, _)
Dissolve(rows, d) ==
    IF d > Len(DissolveOrder) THEN <<>>
    ELSE DissolvedGroup(DissolveOrder[d],
                        SelectSeq(rows, LAMBDA r : r.district = DissolveOrder[d]))
         \o Dissolve(rows, d + 1)

rd_constructed(gp, c, year) == Dissolve(MergeOnID(gp, filter_membership(c, year), 1), 1)

NextPlace(ix) == IF ix = Len(CENSUS_YEARS) THEN "con_done" ELSE "con_loop"

SaveLayer(year, layer) ==
    /\ gpkg' = (year :> layer) @@ gpkg
    /\ con_ix' = con_ix + 1
    /\ \/ pc' = NextPlace(con_ix)
       \/ layer = <<>> /\ pc' = "con_failed"

\* lines 89-118, one pass of the loop: filter, merge, dissolve, count, save.
\* Writing a layer without rows depends on the installed geopandas: it is
\* written empty or to_file raises and the script stops
ConstructLayer ==
    /\ pc = "con_loop"
    /\ SaveLayer(CENSUS_YEARS[con_ix], rd_constructed(gpar, con, CENSUS_YEARS[con_ix]))
    /\ UNCHANGED <<con, gpar, sumVars, nrmVars, matchVars, covVars, impVars>>

InitConstruct ==
    /\ pc = "con_load"
    /\ con \in ConTables
    /\ gpar = <<>>
    /\ con_ix = 0
    /\ gpkg = <<>>
    /\ IdleSum
    /\ IdleNrm /\ IdleMatch /\ IdleCov /\ IdleImp

NextConstruct == ConLoad \/ ConstructLayer

SpecConstruct == InitConstruct /\ [][NextConstruct]_vars

----------------------------------------------------------------------------
(* rd_year_summary_1851_backbone.py: one row per district and census year,  *)
(* read from the concordance and from the layers the constructor wrote      *)

\* pd.to_numeric(col, errors="coerce") of a year cell: NaN, or a text that is
\* a whole number written with or without ".0", or a text that is no number
to_numeric(x) ==
    IF x = NaN THEN NA
    ELSE IF IsDigitText(x) THEN ParseInt(x)
    ELSE IF Len(x) > 2 /\ SubSeq(x, Len(x) - 1, Len(x)) = <<".","0">>
         THEN IntOrNA(SubSeq(x, 1, Len(x) - 2))
         ELSE NA

active_at_year(r, year) ==
    /\ to_numeric(r.from_year) # NA
    /\ to_numeric(r.from_year) <= year
    /\ (to_numeric(r.to_year) = NA \/ to_numeric(r.to_year) >= year)

\* gpar.geometry.area / 1_000_000.0, a grid cell being one square kilometre
AreaKm2(geometry) == Cardinality(geometry)

\* the items of gpar.set_index("ID")["parish_area_km2"]
ParishAreaRows(gp) ==
    [i \in 1..Len(gp) |-> [ID |-> gp[i].ID, parish_area_km2 |-> AreaKm2(gp[i].geometry)]]

\* dict lookup through Series.map: the last row of an ID holds its value,
\* an ID without a row maps to NaN
MapArea(pa, id) ==
    IF \E i \in 1..Len(pa) : pa[i].ID = id
    THEN pa[CHOOSE i \in 1..Len(pa) :
                /\ pa[i].ID = id
                /\ \A j \in (i + 1)..Len(pa) : pa[j].ID # id].parish_area_km2
    ELSE NA

\* lines 37-63: read the concordance and the parish polygons, compute the areas
SumLoad ==
    /\ pc = "con_done"
    /\ parish_area' = ParishAreaRows(NumericID(ParGeoRows))
    /\ sum_ix' = 1
    /\ pc' = "sum_loop"
    /\ UNCHANGED <<con, gpar, con_ix, gpkg, summary_rows, rd_summary,
                   nrmVars, matchVars, covVars, impVars>>

\* a quotient of two counts or areas, kept as its two terms
Ratio(a, b) == [num |-> a, den |-> b]
NoRatio == [num |-> NA, den |-> NA]

\* the rows of dfy_m: matched rows with an ID, with the area of their parish
Dfy_m(dfy, pa) ==
    [i \in 1..Len(SelectSeq(dfy, LAMBDA r : r.matched /\ r.ID # NA)) |->
        [district |-> SelectSeq(dfy, LAMBDA r : r.matched /\ r.ID # NA)[i].district,
         ID |-> SelectSeq(dfy, LAMBDA r : r.matched /\ r.ID # NA)[i].ID,
         parish_area_km2 |->
            MapArea(pa, SelectSeq(dfy, LAMBDA r : r.matched /\ r.ID # NA)[i].ID)]]

\* groupby("district")["parish_area_km2"].sum(): NaN cells are skipped
RECURSIVE AreaSum(_, _)
AreaSum(grp, i) ==
    IF i > Len(grp) THEN 0
    ELSE (IF grp[i].parish_area_km2 = NA THEN 0 ELSE grp[i].parish_area_km2)
         + AreaSum(grp, i + 1)

\* groupby("district")["parish_area_km2"].idxmax(): the first row, in the
\* order of the concordance, that holds the largest area of the group
idxmax(grp) ==
    CHOOSE i \in 1..Len(grp) :
        /\ grp[i].parish_area_km2 # NA
        /\ \A j \in 1..Len(grp) : grp[j].parish_area_km2 <= grp[i].parish_area_km2
        /\ \A j \in 1..(i - 1) : grp[j].parish_area_km2 < grp[i].parish_area_km2

\* the columns of dom for one district; a district without a row of dfy_m has
\* no row in dom and the left merge leaves its cells null
NoDom ==
    [dominant_parish_1851_id |-> NA, dominant_parish_area_km2 |-> NA,
     total_area_km2 |-> NA, dominant_parish_area_share |-> NoRatio]

DomOf(grp) ==
    IF \A i \in 1..Len(grp) : grp[i].parish_area_km2 = NA THEN NoDom
    ELSE [dominant_parish_1851_id |-> grp[idxmax(grp)].ID,
          dominant_parish_area_km2 |-> grp[idxmax(grp)].parish_area_km2,
          total_area_km2 |-> AreaSum(grp, 1),
          dominant_parish_area_share |-> Ratio(grp[idxmax(grp)].parish_area_km2, AreaSum(grp, 1))]

MatchedCount(grp) == Len(SelectSeq(grp, LAMBDA r : r.matched))

\* CoverageRow calling a district usable when it has an active row
CoverageRow_usable_if_active(year, district, grp, dom) ==
    [year |-> year, district |-> district,
     active_parish_rows |-> Len(grp),
     matched_parish_rows |-> MatchedCount(grp),
     n_parishes_matched |-> Cardinality({grp[i].ID : i \in 1..Len(grp)} \ {NA}),
     matched_share |-> Ratio(MatchedCount(grp), Len(grp)),
     usable_1851_backbone |-> IF Len(grp) > 0 THEN 1 ELSE 0,
     dominant_parish_1851_id |-> dom.dominant_parish_1851_id,
     dominant_parish_area_km2 |-> dom.dominant_parish_area_km2,
     total_area_km2 |-> dom.total_area_km2,
     dominant_parish_area_share |-> dom.dominant_parish_area_share]

\* the row of g for one district: the coverage statistics of lines 74-83 and
\* the dominant parish of lines 85-114
CoverageRow(year, district, grp, dom) ==
    [year |-> year, district |-> district,
     active_parish_rows |-> Len(grp),
     matched_parish_rows |-> MatchedCount(grp),
     n_parishes_matched |-> Cardinality({grp[i].ID : i \in 1..Len(grp)} \ {NA}),
     matched_share |-> Ratio(MatchedCount(grp), Len(grp)),
     usable_1851_backbone |-> IF MatchedCount(grp) > 0 THEN 1 ELSE 0,
     dominant_parish_1851_id |-> dom.dominant_parish_1851_id,
     dominant_parish_area_km2 |-> dom.dominant_parish_area_km2,
     total_area_km2 |-> dom.total_area_km2,
     dominant_parish_area_share |-> dom.dominant_parish_area_share]

\* the group keys of dfy.groupby("district"), sorted
GroupKeys(dfy) ==
    SelectSeq(DissolveOrder, LAMBDA d : \E i \in 1..Len(dfy) : dfy[i].district = d)

\* the frame g of one census year
YearCoverage(c, pa, year) ==
    [k \in 1..Len(GroupKeys(SelectSeq(c, LAMBDA r : active_at_year(r, year)))) |->
        CoverageRow(year,
                    GroupKeys(SelectSeq(c, LAMBDA r : active_at_year(r, year)))[k],
                    SelectSeq(c, LAMBDA r :
                        /\ active_at_year(r, year)
                        /\ r.district = GroupKeys(SelectSeq(c, LAMBDA q : active_at_year(q, year)))[k]),
                    DomOf(Dfy_m(SelectSeq(c, LAMBDA r :
                        /\ active_at_year(r, year)
                        /\ r.district = GroupKeys(SelectSeq(c, LAMBDA q : active_at_year(q, year)))[k]),
                                pa)))]

\* lines 70-116, one pass of the loop over CENSUS_YEARS
SumYear ==
    /\ pc = "sum_loop"
    /\ summary_rows' = Append(summary_rows, YearCoverage(con, parish_area, CENSUS_YEARS[sum_ix]))
    /\ sum_ix' = sum_ix + 1
    /\ pc' = IF sum_ix = Len(CENSUS_YEARS) THEN "sum_merge" ELSE "sum_loop"
    /\ UNCHANGED <<con, gpar, con_ix, gpkg, parish_area, rd_summary,
                   nrmVars, matchVars, covVars, impVars>>

\* the values of geometry_source
Src_reconstruction == "1851_parish_reconstruction"
Src_not_representable == "not_representable_on_1851_backbone"

\* the centroid cells of a district without a row in the layer
NoXY == [x |-> NA, y |-> NA]

\* the centroid of a polygon, in whole metres: the cell k lies at x = 1000 k
RECURSIVE CellSum(_)
CellSum(cells) ==
    IF cells = {} THEN 0
    ELSE (CHOOSE k \in cells : \A h \in cells : k <= h)
         + CellSum(cells \ {CHOOSE k \in cells : \A h \in cells : k <= h})

Centroid(geometry) ==
    IF geometry = {} THEN NoXY
    ELSE [x |-> (1000 * CellSum(geometry)) \div Cardinality(geometry), y |-> 0]

\* centroid_xy of a district and year: the centroid of its row in the layer
\* rd_<year>_constructed, or nothing when the layer has no such row
CentroidXY(layers, year, district) ==
    IF \E i \in 1..Len(layers[year]) : layers[year][i].district = district
    THEN Centroid(layers[year][CHOOSE i \in 1..Len(layers[year]) :
                                    layers[year][i].district = district].geometry)
    ELSE NoXY

\* cent_small: the diagnostic file holds one row for each district of a layer
CentSmall(layers, year, district) ==
    IF \E i \in 1..Len(layers[year]) : layers[year][i].district = district
    THEN [centroid_distance_km |-> 0, centroid_matched_via |-> "within"]
    ELSE [centroid_distance_km |-> NA, centroid_matched_via |-> NoTag]

\* one row of final: the two left merges on (year, district) and the
\* geometry source of lines 173-176
FinalRow(r, layers) ==
    [year |-> r.year, district |-> r.district,
     active_parish_rows |-> r.active_parish_rows,
     matched_parish_rows |-> r.matched_parish_rows,
     matched_share |-> r.matched_share,
     usable_1851_backbone |-> r.usable_1851_backbone,
     n_parishes_matched |-> r.n_parishes_matched,
     total_area_km2 |-> r.total_area_km2,
     dominant_parish_1851_id |-> r.dominant_parish_1851_id,
     dominant_parish_area_km2 |-> r.dominant_parish_area_km2,
     dominant_parish_area_share |-> r.dominant_parish_area_share,
     centroid_x |-> CentroidXY(layers, r.year, r.district).x,
     centroid_y |-> CentroidXY(layers, r.year, r.district).y,
     centroid_distance_km |-> CentSmall(layers, r.year, r.district).centroid_distance_km,
     centroid_matched_via |-> CentSmall(layers, r.year, r.district).centroid_matched_via,
     geometry_source |-> IF r.usable_1851_backbone = 1 THEN Src_reconstruction
                         ELSE Src_not_representable]

\* pd.concat(summary_rows)
RECURSIVE ConcatFrames(_, _)
ConcatFrames(frames, i) ==
    IF i > Len(frames) THEN <<>> ELSE frames[i] \o ConcatFrames(frames, i + 1)

\* lines 118-201: concatenate, merge the diagnostics and the centroids, save
SumFinish ==
    /\ pc = "sum_merge"
    /\ rd_summary' = [k \in 1..Len(ConcatFrames(summary_rows, 1)) |->
                         FinalRow(ConcatFrames(summary_rows, 1)[k], gpkg)]
    /\ pc' = "sum_done"
    /\ UNCHANGED <<con, gpar, con_ix, gpkg, parish_area, sum_ix, summary_rows,
                   nrmVars, matchVars, covVars, impVars>>

\* the constructor, then the summary over the same concordance
NextSummary == ConLoad \/ ConstructLayer \/ SumLoad \/ SumYear \/ SumFinish

SpecSummary == InitConstruct /\ [][NextSummary]_vars

----------------------------------------------------------------------------
(* impute_unmatched_to_nearest_1851_rd_centroid.py: nearest-centroid         *)
(* imputation for district-years without usable backbone geometry           *)

\* the tail matched by \s*\([^)]*\)\s*$ when it starts at position i
ParenTailAt(s, i) ==
    \E j \in i..Len(s) : \E m \in (j + 1)..Len(s) :
        /\ \A k \in i..(j - 1) : IsSpace(s[k])
        /\ s[j] = "("
        /\ s[m] = ")"
        /\ \A k \in (j + 1)..(m - 1) : s[k] # ")"
        /\ \A k \in (m + 1)..Len(s) : IsSpace(s[k])

\* re.sub(r"\s*\([^)]*\)\s*$", "", s): the leftmost match is removed
StripParenTail(s) ==
    IF \E i \in 1..Len(s) : ParenTailAt(s, i)
    THEN SubSeq(s, 1, (CHOOSE i \in 1..Len(s) :
                          ParenTailAt(s, i) /\ \A h \in 1..(i - 1) : ~ParenTailAt(s, h)) - 1)
    ELSE s

\* re.sub(r"[^a-z0-9\s]", " ", s)
KeepAlnum(s) ==
    [i \in 1..Len(s) |->
        IF s[i] \in LowerLetters \/ s[i] \in Digits \/ IsSpace(s[i]) THEN s[i] ELSE " "]

\* std_name: x is NaN or the text str(x)
std_name(x) ==
    IF x = NaN THEN <<>>
    ELSE Strip(CollapseSpaces(KeepAlnum(StripParenTail(Lower(Strip(x))))))

\* a point of the projected plane, in metres; NoPoint is a missing geometry
Pt(x, y) == [x |-> x, y |-> y]
NoPoint == [x |-> NA, y |-> NA]

District_Ab == <<"A","b">>
District_Cd == <<"C","d">>
GName_AB_x == <<"A","B"," ","(","x",")">>
GName_a_b == <<"a","-","b">>

Src_imputed == "centroid_imputed_nearest_1851_rd"
Src_failed == "imputation_failed_no_source_point"

\* one row of rd_year_summary_1851_backbone.csv; geometry_source follows the
\* usable flag as the summary script writes it
SummaryRow(year, district, usable, x, y) ==
    [year |-> year, district |-> district, usable_1851_backbone |-> usable,
     centroid_x |-> x, centroid_y |-> y,
     geometry_source |-> IF usable = 1 THEN Src_reconstruction ELSE Src_not_representable]

SummaryRowPool ==
    { SummaryRow(1851, District_Ab, 1, 0, 0),
      SummaryRow(1851, District_Cd, 1, NA, NA),
      SummaryRow(1851, District_Ab, 0, NA, NA),
      SummaryRow(1851, District_Cd, 0, NA, NA),
      SummaryRow(1851, District_Cd, 0, 6000, 8000),
      SummaryRow(1861, District_Ab, 1, NA, NA),
      SummaryRow(1861, District_Ab, 0, NA, NA),
      SummaryRow(1861, District_Cd, 0, 6000, 8000),
      SummaryRow(1861, District_Ab, 0, 0, 0),
      SummaryRow(1851, District_Ab, 0, 6000, NA) }

\* most rows of the summary
MaxSum == 2

\* the summary has one row per (year, district)
OneRowPerKey(rows) ==
    \A i, j \in 1..Len(rows) :
        (rows[i].year = rows[j].year /\ rows[i].district = rows[j].district) => i = j

SummaryTables ==
    {rows \in UNION {[1..n -> SummaryRowPool] : n \in 1..MaxSum} : OneRowPerKey(rows)}

\* centroids of the layer TARGET_LAYER
TargetPool ==
    { << [district |-> "T1", geometry |-> Pt(0, 0)] >>,
      << [district |-> "T1", geometry |-> Pt(0, 0)],
         [district |-> "T2", geometry |-> Pt(6000, 0)] >> }

\* the official district centroids read from official_shp(year)
OfficialPts(year) ==
    IF year = 1851
    THEN << [G_NAME |-> GName_AB_x, o_centroid |-> Pt(3000, 0)],
            [G_NAME |-> District_Ab, o_centroid |-> Pt(6000, 8000)] >>
    ELSE << [G_NAME |-> GName_a_b, o_centroid |-> Pt(0, 0)],
            [G_NAME |-> District_Ab, o_centroid |-> Pt(6000, 8000)] >>

\* the columns of rd_year_summary_1851_backbone.csv
SummaryColumns ==
    {"year", "district", "usable_1851_backbone", "centroid_x", "centroid_y", "geometry_source"}

\* the columns of the frame before and after the merge with imp: the two
\* columns present on both sides come out with the suffixes _x and _y
BaseColumns ==
    {"year", "district", "district_std", "usable_1851_backbone", "centroid_x", "centroid_y",
     "geometry_source", "location_imputed", "imputation_failed",
     "imputed_from_district", "imputed_distance_km", "imputation_source_point"}
MergedColumns ==
    (BaseColumns \ {"imputed_from_district", "imputed_distance_km"})
    \cup {"imputed_from_district_x", "imputed_from_district_y",
          "imputed_distance_km_x", "imputed_distance_km_y"}

\* the suffixed columns, and the names of their second occurrences when the
\* merge meets a frame that holds them already (written as read_csv renames
\* a repeated header)
SuffixColumns ==
    {"imputed_from_district_x", "imputed_from_district_y",
     "imputed_distance_km_x", "imputed_distance_km_y"}
RepeatedColumns ==
    {"imputed_from_district_x.1", "imputed_from_district_y.1",
     "imputed_distance_km_x.1", "imputed_distance_km_y.1"}

\* Series.fillna
FillNum(a, b) == IF a = NA THEN b ELSE a
FillTag(a, b) == IF a = NoTag THEN b ELSE a

\* the cell of column c, or the default when the file has no such column
CellOr(r, cols, c, default) == IF c \in cols THEN r[c] ELSE default

\* a row of df after the defaults of lines 53-74: a column the file has
\* keeps its cells, a column it lacks is added with its default
LoadedSummaryRow(r, cols) ==
    [year |-> r.year, district |-> r.district, district_std |-> std_name(r.district),
     usable_1851_backbone |-> r.usable_1851_backbone,
     centroid_x |-> r.centroid_x, centroid_y |-> r.centroid_y,
     geometry_source |-> r.geometry_source,
     location_imputed |-> FillNum(CellOr(r, cols, "location_imputed", 0), 0),
     imputation_failed |-> FillNum(CellOr(r, cols, "imputation_failed", 0), 0),
     imputed_from_district |-> CellOr(r, cols, "imputed_from_district", NoTag),
     imputed_distance_km |-> CellOr(r, cols, "imputed_distance_km", NA),
     imputation_source_point |-> CellOr(r, cols, "imputation_source_point", NoTag),
     imputed_from_district_x |-> CellOr(r, cols, "imputed_from_district_x", NoTag),
     imputed_from_district_y |-> CellOr(r, cols, "imputed_from_district_y", NoTag),
     imputed_distance_km_x |-> CellOr(r, cols, "imputed_distance_km_x", NA),
     imputed_distance_km_y |-> CellOr(r, cols, "imputed_distance_km_y", NA)]

LoadedRows(rows, cols) == [i \in 1..Len(rows) |-> LoadedSummaryRow(rows[i], cols)]

\* lines 52-85: read the summary, add the columns, read the target centroids
ImpLoad ==
    /\ pc = "imp_load"
    /\ df' = LoadedRows(df, df_columns)
    /\ df_columns' = df_columns \cup BaseColumns
    /\ imp_ix' = 1
    /\ pc' = "imp_loop"
    /\ UNCHANGED <<targets, official, out_frames, final, nrmVars, matchVars, covVars, conVars>>

\* d_y with row_id = d_y.index
WithRowId(rows) ==
    [i \in 1..Len(rows) |->
        [year |-> rows[i].year, district |-> rows[i].district,
         district_std |-> rows[i].district_std,
         usable_1851_backbone |-> rows[i].usable_1851_backbone,
         centroid_x |-> rows[i].centroid_x, centroid_y |-> rows[i].centroid_y,
         geometry_source |-> rows[i].geometry_source,
         location_imputed |-> rows[i].location_imputed,
         imputation_failed |-> rows[i].imputation_failed,
         imputed_from_district |-> rows[i].imputed_from_district,
         imputed_distance_km |-> rows[i].imputed_distance_km,
         imputation_source_point |-> rows[i].imputation_source_point,
         imputed_from_district_x |-> rows[i].imputed_from_district_x,
         imputed_from_district_y |-> rows[i].imputed_from_district_y,
         imputed_distance_km_x |-> rows[i].imputed_distance_km_x,
         imputed_distance_km_y |-> rows[i].imputed_distance_km_y,
         row_id |-> i]]

YearRows(rows, year) == SelectSeq(WithRowId(rows), LAMBDA r : r.year = year)

\* needs_mask taking every row of the year
needs_mask_all(r) == TRUE

\* needs_mask = d_y["usable_1851_backbone"] == 0
needs_mask(r) == r.usable_1851_backbone = 0

\* needs_mask2, recomputed after the merge
needs_mask2(r) == r.usable_1851_backbone = 0

has_xy(r) == r.centroid_x # NA /\ r.centroid_y # NA

\* off_map of the rows kept by drop_duplicates("district_std")
InOffMap(off, key) == \E i \in 1..Len(off) : std_name(off[i].G_NAME) = key
OffMapGet(off, key) ==
    off[CHOOSE i \in 1..Len(off) :
            /\ std_name(off[i].G_NAME) = key
            /\ \A j \in 1..(i - 1) : std_name(off[j].G_NAME) # key].o_centroid

\* SourceOf looking up the official centroid first
SourceOf_official_first(r, off) ==
    IF InOffMap(off, r.district_std)
    THEN [geom |-> OffMapGet(off, r.district_std), tag |-> "from_official_name"]
    ELSE IF has_xy(r)
         THEN [geom |-> Pt(r.centroid_x, r.centroid_y), tag |-> "from_existing_xy"]
         ELSE [geom |-> NoPoint, tag |-> NoTag]

\* source_geom and imputation_source_point_tmp of a row of needs
SourceOf(r, off) ==
    IF has_xy(r)
    THEN [geom |-> Pt(r.centroid_x, r.centroid_y), tag |-> "from_existing_xy"]
    ELSE IF InOffMap(off, r.district_std)
         THEN [geom |-> OffMapGet(off, r.district_std), tag |-> "from_official_name"]
         ELSE [geom |-> NoPoint, tag |-> NoTag]

can_impute(r, off) == SourceOf(r, off).geom # NoPoint

\* the root of a square number of kilometres
Root(n) == CHOOSE r \in 0..n : r * r = n
Square(a) == a * a

\* planar distance in metres between points a whole number of kilometres apart
dist_m(p, q) ==
    1000 * Root(Square((p.x - q.x) \div 1000) + Square((p.y - q.y) \div 1000))

\* the positions of the targets nearest to p, every one of equal distance
NearestTargets(tg, p) ==
    SelectSeq([k \in 1..Len(tg) |-> k],
              LAMBDA k : \A j \in 1..Len(tg) :
                            dist_m(p, tg[k].geometry) <= dist_m(p, tg[j].geometry))

\* ImpRowsOf with the tag of the source point in the district column
ImpRowsOf_tag_as_district(r, s, tg, near) ==
    [n \in 1..Len(near) |->
        [row_id |-> r.row_id,
         imputed_from_district |-> s.tag,
         imputed_distance_km |-> dist_m(s.geom, tg[near[n]].geometry) \div 1000,
         centroid_x_imp |-> tg[near[n]].geometry.x,
         centroid_y_imp |-> tg[near[n]].geometry.y,
         imputation_source_point_tmp |-> s.tag]]

\* the rows of imp for one row of src
ImpRowsOf(r, s, tg, near) ==
    [n \in 1..Len(near) |->
        [row_id |-> r.row_id,
         imputed_from_district |-> tg[near[n]].district,
         imputed_distance_km |-> dist_m(s.geom, tg[near[n]].geometry) \div 1000,
         centroid_x_imp |-> tg[near[n]].geometry.x,
         centroid_y_imp |-> tg[near[n]].geometry.y,
         imputation_source_point_tmp |-> s.tag]]

NearestRows(r, s, tg) == ImpRowsOf(r, s, tg, NearestTargets(tg, s.geom))

\* gpd.sjoin_nearest(src_gdf, targets, how="left") and the columns of imp
RECURSIVE sjoin_nearest(_, _, _, _)
sjoin_nearest(src, tg, off, i) ==
    IF i > Len(src) THEN <<>>
    ELSE NearestRows(src[i], SourceOf(src[i], off), tg) \o sjoin_nearest(src, tg, off, i + 1)

\* the row of imp a left merge gives a row without a partner
NoImp ==
    [row_id |-> NA, imputed_from_district |-> NoTag, imputed_distance_km |-> NA,
     centroid_x_imp |-> NA, centroid_y_imp |-> NA, imputation_source_point_tmp |-> NoTag]

got(r, m) == needs_mask2(r) /\ m.centroid_x_imp # NA /\ m.centroid_y_imp # NA

\* miss taking every row of needs
miss_every_row_of_needs(r, m) == needs_mask2(r)

miss(r, m) == needs_mask2(r) /\ ~got(r, m)

\* a row of a frame appended without the merge
PlainRow(r) ==
    [year |-> r.year, district |-> r.district, district_std |-> r.district_std,
     usable_1851_backbone |-> r.usable_1851_backbone,
     centroid_x |-> r.centroid_x, centroid_y |-> r.centroid_y,
     geometry_source |-> r.geometry_source,
     location_imputed |-> r.location_imputed,
     imputation_failed |-> r.imputation_failed,
     imputed_from_district |-> r.imputed_from_district,
     imputed_distance_km |-> r.imputed_distance_km,
     imputation_source_point |-> r.imputation_source_point,
     imputed_from_district_x |-> r.imputed_from_district_x,
     imputed_from_district_y |-> r.imputed_from_district_y,
     imputed_distance_km_x |-> r.imputed_distance_km_x,
     imputed_distance_km_y |-> r.imputed_distance_km_y]

\* the cells of the repeated columns when d_y holds the suffixed columns
\* already: the merge suffixes its two columns once more
RepeatedCells(r, m) ==
    [c \in RepeatedColumns |->
        CASE c = "imputed_from_district_x.1" -> r.imputed_from_district_x
          [] c = "imputed_from_district_y.1" -> r.imputed_from_district_y
          [] c = "imputed_distance_km_x.1" -> r.imputed_distance_km_x
          [] c = "imputed_distance_km_y.1" -> r.imputed_distance_km_y]

\* lines 192-211 for a row r of d_y joined with the row m of imp
AssignedRow(r, m) ==
    [year |-> r.year, district |-> r.district, district_std |-> r.district_std,
     usable_1851_backbone |-> r.usable_1851_backbone,
     centroid_x |-> IF got(r, m) THEN FillNum(r.centroid_x, m.centroid_x_imp) ELSE r.centroid_x,
     centroid_y |-> IF got(r, m) THEN FillNum(r.centroid_y, m.centroid_y_imp) ELSE r.centroid_y,
     geometry_source |-> r.geometry_source,
     location_imputed |-> IF got(r, m) THEN 1 ELSE r.location_imputed,
     imputation_failed |-> IF miss(r, m) THEN 1 ELSE r.imputation_failed,
     imputed_from_district |-> NoTag,
     imputed_distance_km |-> NA,
     imputation_source_point |->
        IF got(r, m) THEN FillTag(r.imputation_source_point, m.imputation_source_point_tmp)
        ELSE r.imputation_source_point,
     imputed_from_district_x |-> r.imputed_from_district,
     imputed_from_district_y |-> m.imputed_from_district,
     imputed_distance_km_x |-> r.imputed_distance_km,
     imputed_distance_km_y |-> m.imputed_distance_km]

\* the merged row, with the repeated columns when the merge collides
MergedRow_imp(r, m, cols) ==
    IF cols \cap SuffixColumns = {} THEN AssignedRow(r, m)
    ELSE AssignedRow(r, m) @@ RepeatedCells(r, m)

Partners(r, ms, cols) == IF ms = <<>> THEN <<MergedRow_imp(r, NoImp, cols)>>
                         ELSE [n \in 1..Len(ms) |-> MergedRow_imp(r, ms[n], cols)]

\* d_y.merge(imp, on="row_id", how="left") followed by the assignments
RECURSIVE MergeImp(_, _, _, _)
MergeImp(d_y, imp, cols, i) ==
    IF i > Len(d_y) THEN <<>>
    ELSE Partners(d_y[i], SelectSeq(imp, LAMBDA m : m.row_id = d_y[i].row_id), cols)
         \o MergeImp(d_y, imp, cols, i + 1)

\* FailedMarked leaving every row as it is
FailedMarked_unmarked(d_y, off) == d_y

\* lines 154-156: imputation_failed = 1 for the rows of needs without a source point
FailedMarked(d_y, off) ==
    [i \in 1..Len(d_y) |->
        IF needs_mask(d_y[i]) /\ ~can_impute(d_y[i], off)
        THEN [d_y[i] EXCEPT !.imputation_failed = 1]
        ELSE d_y[i]]

PlainFrame(d_y, cols) ==
    [columns |-> cols, rows |-> [i \in 1..Len(d_y) |-> PlainRow(d_y[i])]]

\* the columns after the merge and the drop of line 211
ColumnsAfterMerge(cols) ==
    IF cols \cap SuffixColumns = {} THEN MergedColumns
    ELSE (cols \ {"imputed_from_district", "imputed_distance_km"})
         \cup SuffixColumns \cup RepeatedColumns

MergedFrame(d_y, cols, tg, off) ==
    [columns |-> ColumnsAfterMerge(cols),
     rows |-> MergeImp(FailedMarked(d_y, off),
                       sjoin_nearest(SelectSeq(d_y, LAMBDA r : needs_mask(r) /\ can_impute(r, off)),
                                     tg, off, 1),
                       cols, 1)]

\* line 158 is passed: some row of needs has a source point
Merges(d_y, off) == \E i \in 1..Len(d_y) : needs_mask(d_y[i]) /\ can_impute(d_y[i], off)

\* the frame one pass of the loop appends to out_frames
YearFrame(d_y, cols, tg, off) ==
    IF \A i \in 1..Len(d_y) : ~needs_mask(d_y[i]) THEN PlainFrame(d_y, cols)
    ELSE IF ~Merges(d_y, off)
         THEN PlainFrame(FailedMarked(d_y, off), cols)
         ELSE MergedFrame(d_y, cols, tg, off)

\* the merge of line 192 meets the columns imputed_from_district_x/_y and
\* imputed_distance_km_x/_y in d_y: its suffixes would repeat them
Collides(d_y, cols, off) == Merges(d_y, off) /\ cols \cap SuffixColumns # {}

AppendYearFrame ==
    /\ out_frames' = Append(out_frames,
                            YearFrame(YearRows(df, CENSUS_YEARS[imp_ix]), df_columns, targets,
                                      official[CENSUS_YEARS[imp_ix]]))
    /\ imp_ix' = imp_ix + 1
    /\ pc' = IF imp_ix = Len(CENSUS_YEARS) THEN "imp_concat" ELSE "imp_loop"
    /\ UNCHANGED <<df, df_columns, targets, official, final,
                   nrmVars, matchVars, covVars, conVars>>

\* lines 90-213, one pass of the loop over CENSUS_YEARS
ImputeYear ==
    /\ pc = "imp_loop"
    /\ ~Collides(YearRows(df, CENSUS_YEARS[imp_ix]), df_columns, official[CENSUS_YEARS[imp_ix]])
    /\ AppendYearFrame

\* one pass of the loop whose merge collides: pandas 2 raises MergeError and
\* the script ends without writing; pandas 1 warns and repeats the columns
ImputeYearCollision ==
    /\ pc = "imp_loop"
    /\ Collides(YearRows(df, CENSUS_YEARS[imp_ix]), df_columns, official[CENSUS_YEARS[imp_ix]])
    /\ \/ AppendYearFrame
       \/ /\ pc' = "imp_failed"
          /\ UNCHANGED <<impVars, nrmVars, matchVars, covVars, conVars>>

RECURSIVE ConcatRows(_, _)
ConcatRows(frames, i) ==
    IF i > Len(frames) THEN <<>> ELSE frames[i].rows \o ConcatRows(frames, i + 1)

\* lines 217-221 for one row of final
SourceFlagged(r) ==
    [r EXCEPT !.geometry_source =
        IF r.imputation_failed = 1
        THEN FillTag(IF r.location_imputed = 1 THEN Src_imputed ELSE r.geometry_source, Src_failed)
        ELSE IF r.location_imputed = 1 THEN Src_imputed ELSE r.geometry_source]

Flagged(rows) == [i \in 1..Len(rows) |-> SourceFlagged(rows[i])]

\* pd.concat(out_frames) with the geometry source flagged
SavedTable(frames) ==
    [columns |-> UNION {frames[i].columns : i \in 1..Len(frames)},
     rows |-> Flagged(ConcatRows(frames, 1))]

\* lines 215-223: concatenate the frames, flag the geometry source, save
ImpFinish ==
    /\ pc = "imp_concat"
    /\ final' = SavedTable(out_frames)
    /\ pc' = "imp_done"
    /\ UNCHANGED <<df, df_columns, targets, official, imp_ix, out_frames,
                   nrmVars, matchVars, covVars, conVars>>

InitImpute ==
    /\ pc = "imp_load"
    /\ df \in SummaryTables
    /\ df_columns = SummaryColumns
    /\ targets \in TargetPool
    /\ official = [y \in {CENSUS_YEARS[i] : i \in 1..Len(CENSUS_YEARS)} |-> OfficialPts(y)]
    /\ imp_ix = 0
    /\ out_frames = <<>>
    /\ final = <<>>
    /\ IdleNrm /\ IdleMatch /\ IdleCov /\ IdleCon

NextImpute == ImpLoad \/ ImputeYear \/ ImpFinish

SpecImpute == InitImpute /\ [][NextImpute]_vars

\* the table a run over a fresh summary saves
FirstRun(summary, tg) ==
    SavedTable([k \in 1..Len(CENSUS_YEARS) |->
                  YearFrame(YearRows(LoadedRows(summary, SummaryColumns), CENSUS_YEARS[k]),
                            BaseColumns, tg, OfficialPts(CENSUS_YEARS[k]))])

\* a second run, with the file saved by the first one as its summary
InitRerun ==
    /\ pc = "imp_load"
    /\ \E summary \in SummaryTables : \E tg \in TargetPool :
          /\ df = FirstRun(summary, tg).rows
          /\ df_columns = FirstRun(summary, tg).columns
          /\ targets = tg
    /\ official = [y \in {CENSUS_YEARS[i] : i \in 1..Len(CENSUS_YEARS)} |-> OfficialPts(y)]
    /\ imp_ix = 0
    /\ out_frames = <<>>
    /\ final = <<>>
    /\ IdleNrm /\ IdleMatch /\ IdleCov /\ IdleCon

NextRerun == ImpLoad \/ ImputeYear \/ ImputeYearCollision \/ ImpFinish

SpecRerun == InitRerun /\ [][NextRerun]_vars

----------------------------------------------------------------------------
(* Claims about the matching run (SpecMatch) and the normalizer            *)
(* (SpecNormalize)                                                          *)

MatchDone == pc = "match_done"
LookupBuilt == pc \in {"match_stage1", "match_stage1b", "match_combine", "match_done"}

\* C1: in every row of the concordance, matched is true exactly when
\* matched_1851_index is not null
C1_MatchedIffIndex ==
    MatchDone =>
        \A i \in 1..Len(uk) : uk[i].matched = (uk[i].matched_1851_index # NA)

\* a finished run whose concordance has a matched and an unmatched row
C1_Witness ==
    /\ MatchDone
    /\ \E i, j \in 1..Len(uk) :
          /\ uk[i].matched /\ uk[i].matched_1851_index # NA
          /\ ~uk[j].matched /\ uk[j].matched_1851_index = NA

\* the generated key set of a reference name, as a set: the full key, the
\* comma-stripped key, the suffix-stripped key, their no-space forms, and the
\* Welsh and vowel variants of all of these (the empty key is never a key)
SeqRange(s) == {s[i] : i \in 1..Len(s)}
WithVariantSet(keys) ==
    (keys \cup UNION {SeqRange(make_welsh_variants(k)) \cup
                       SeqRange(make_vowel_variants(k)) : k \in keys}) \ {<<>>}
WithNoSpaceSet(keys) == keys \cup {NoSpaces(k) : k \in keys}
KeySetFrom(key_full, key_no_comma) ==
    WithVariantSet(WithNoSpaceSet({key_full, key_no_comma, key_no_suffix(key_no_comma)}))
ParishKeySet(pla) == KeySetFrom(make_key_improved(pla, TRUE), make_key_improved(pla, FALSE))
KeySetOf == [r \in RefPool |-> ParishKeySet(r.PLA)]

\* C5: every key of the index maps to the ID of the first parish, in input
\* order, whose generated key set contains it; no key is stored twice
C5_IndexFirstWins ==
    LookupBuilt =>
        /\ \A m, n \in 1..Len(lookup) : lookup[m].key = lookup[n].key => m = n
        /\ \A n \in 1..Len(lookup) :
              \E i \in 1..Len(par) :
                 /\ lookup[n].key \in KeySetOf[par[i]]
                 /\ \A j \in 1..(i-1) : lookup[n].key \notin KeySetOf[par[j]]
                 /\ lookup[n].id = par[i].ID

\* LLANFAIR before Llanvair: the second parish's own name is already a Welsh
\* variant of the first, and the key stays with the first
C5_Witness ==
    /\ LookupBuilt
    /\ Len(par) = 2 /\ par[1].ID = 11 /\ par[2].ID = 12
    /\ \E n \in 1..Len(lookup) :
          /\ lookup[n].key = make_key_improved(par[2].PLA, FALSE)
          /\ lookup[n].key \in KeySetOf[par[1]]
          /\ lookup[n].id = 11

\* C6: make_key_improved applied to its own result returns that result, in
\* both comma modes
C6_NormalizerIdempotent ==
    Len(nrm_out) = 2 => nrm_out[2] = nrm_out[1]

\* "st.x" has been normalized twice; the first call rewrote it to "saintx"
C6_Witness ==
    /\ Len(nrm_out) = 2
    /\ nrm_in.s = <<"s","t",".","x">>
    /\ nrm_out[1] = <<"s","a","i","n","t","x">>

\* the normalized name of a source or reference name
NormName(name) == make_key_improved(name, FALSE)
WelshSet(k) == SeqRange(make_welsh_variants(k))

\* r and k differ by one Welsh substitution
WelshApart(r, k) == r # k /\ (k \in WelshSet(r) \/ r \in WelshSet(k))

\* the case of C7 for a raw name with normalized key r: r is one Welsh
\* substitution away from a reference name, and no reference name normalizes
\* to r
C7_CaseKey(r) ==
    /\ \E i \in 1..Len(par) : WelshApart(r, NormName(par[i].PLA))
    /\ \A i \in 1..Len(par) : NormName(par[i].PLA) # r
C7_Case(row) == row.parish # NaN /\ C7_CaseKey(NormName(row.parish))

\* C7 as stated: such a name resolves with matched = true and
\* match_method = "welsh_variant"
C7_WelshVariantMethod ==
    MatchDone =>
        \A i \in 1..Len(uk) :
            C7_Case(uk[i]) => uk[i].matched /\ uk[i].match_method = "welsh_variant"

\* the amended outcome for a row whose raw name has the normalized key r
C7_Outcome(row, r) ==
    /\ row.matched
    /\ row.match_method = (IF InLookup(lookup, r) THEN "exact" ELSE "welsh_variant")
    /\ (\E j \in 1..Len(par) : r \in WelshSet(NormName(par[j].PLA)))
          => InLookup(lookup, r)

\* C7 amended: such a name resolves with matched = true; its method is "exact"
\* when its key is itself a key of the index, which it always is when it is a
\* Welsh variant of the reference name (the index registers those), and
\* "welsh_variant" otherwise
C7_WelshMatchedExactOrVariant ==
    MatchDone =>
        \A i \in 1..Len(uk) :
            C7_Case(uk[i]) => C7_Outcome(uk[i], NormName(uk[i].parish))

\* "Llanvair" against the reference table holding only "LLANFAIR"
C7_Witness ==
    /\ MatchDone
    /\ Len(par) = 1 /\ par[1].PLA = Name_LLANFAIR
    /\ \E i \in 1..Len(uk) :
          /\ uk[i].parish = Name_Llanvair
          /\ C7_Case(uk[i])
          /\ uk[i].matched /\ uk[i].matched_1851_index = 11
          /\ uk[i].match_method = "exact"

\* stage (a) finds the name: one of its variants is a key of the index
AnyInLookup(variants) == \E v \in 1..Len(variants) : InLookup(lookup, variants[v].key)
FoundByVariants(name) == AnyInLookup(VariantsOf[name])

\* the no-space key of a name
BaseKeyOf(name) == NoSpaces(NormName(name))

\* positions of the index keys that contain the no-space key bk and are at
\* most 15 characters longer
SubstringCandidates(bk) ==
    {k \in 1..Len(lookup) :
        Contains(lookup[k].key, bk) /\ Len(lookup[k].key) - Len(bk) <= 15}

\* stage (b) applies to a name with no-space key bk and finds it
FoundByScan(found_a, bk) == ~found_a /\ Len(bk) >= 5 /\ SubstringCandidates(bk) # {}
FoundBySubstring(name) == FoundByScan(FoundByVariants(name), BaseKeyOf(name))

Least(S) == CHOOSE k \in S : \A m \in S : k <= m

\* one row against the substring stage: the method is `tag` exactly when the
\* stage applies and finds, and then the first fitting key decides
SubstringRow(row, tag, found_b, bk) ==
    /\ (row.match_method = tag) = found_b
    /\ found_b => /\ row.matched
                  /\ row.matched_1851_index = lookup[Least(SubstringCandidates(bk))].id

\* the statement of C8 with `tag` as the method the substring stage records
SubstringStage(tag) ==
    MatchDone =>
        \A i \in 1..Len(uk) :
            uk[i].parish # NaN =>
                SubstringRow(uk[i], tag, FoundBySubstring(uk[i].parish),
                             BaseKeyOf(uk[i].parish))

\* C8 as stated: the substring stage serves exactly the names stage (a) left
\* whose no-space key has 5 characters or more, takes the first index key in
\* insertion order that contains the key and is at most 15 longer, and
\* records matched = true with method "substring"
C8_SubstringMethod == SubstringStage("substring")

\* C8 amended: the same, with the method recorded as "substring_match"
C8_SubstringMatchMethod == SubstringStage("substring_match")

\* "Shawdon" with a 22-character key (15 longer) stored before the keys of
\* "Shawdon and Woodhouse": the first fitting key decides
C8_Witness ==
    /\ MatchDone
    /\ Len(par) = 2 /\ par[1].ID = 14 /\ par[2].ID = 13
    /\ \E i \in 1..Len(uk) :
          /\ uk[i].parish = Name_Shawdon
          /\ FoundBySubstring(uk[i].parish)
          /\ uk[i].match_method = "substring_match"
          /\ uk[i].matched /\ uk[i].matched_1851_index = 14

\* the name of the row is found by neither stage
NotFound(found_a, found_b) == ~found_a /\ ~found_b
FoundByNeither(row) ==
    row.parish = NaN \/ NotFound(FoundByVariants(row.parish), FoundBySubstring(row.parish))

\* C9 as stated: a name found by neither stage gives matched = false, a null
\* matched_1851_index and match_method = "unmatched"
C9_UnmatchedMethod ==
    MatchDone =>
        \A i \in 1..Len(uk) :
            FoundByNeither(uk[i]) =>
                /\ ~uk[i].matched
                /\ uk[i].matched_1851_index = NA
                /\ uk[i].match_method = "unmatched"

\* C9 amended: such a row has matched = false, a null matched_1851_index and a
\* null match_method (no method is recorded), and the run ends normally
C9_UnmatchedNoMethod ==
    MatchDone =>
        \A i \in 1..Len(uk) :
            FoundByNeither(uk[i]) =>
                /\ ~uk[i].matched
                /\ uk[i].matched_1851_index = NA
                /\ uk[i].match_method = NoTag

\* a finished run over a non-empty index with "Zzyzx" left unmatched and
\* "Shaw", too short for the substring stage, left unmatched beside "Shawdon..."
C9_Witness ==
    /\ MatchDone
    /\ \E p \in 1..Len(par) : par[p].PLA = Name_ShawdonAndWoodhouse
    /\ \E i \in 1..Len(uk) :
          /\ uk[i].parish = Name_Shaw
          /\ FoundByNeither(uk[i])
          /\ ~uk[i].matched /\ uk[i].match_method = NoTag


----------------------------------------------------------------------------
(* Claims about the coverage run                                            *)

Expanded == pc \in {"cov_aggregate", "cov_failed", "cov_done", "qa_done", "qa_failed"}

BoundsHold(r) ==
    /\ r.active_parish_rows > 0
    /\ 0 <= r.matched_parish_rows
    /\ r.matched_parish_rows <= r.active_parish_rows
    /\ r.matched_share.den > 0
    /\ 0 <= r.matched_share.num
    /\ r.matched_share.num <= r.matched_share.den

\* C2: every (year, district) row the aggregator emits has
\* active_parish_rows > 0, 0 <= matched_parish_rows <= active_parish_rows and
\* 0 <= matched_share <= 1, whatever the source records; the integrity check
\* then counts no violating row
C2_CoverageBounds ==
    /\ \A i \in 1..Len(cov_out) : BoundsHold(cov_out[i])
    /\ pc = "qa_done" => qa_summary.rows_violating_constraints = 0

\* a checked coverage file with a group that is matched in part
C2_Witness ==
    /\ pc = "qa_done"
    /\ \E i \in 1..Len(cov_out) :
          /\ 0 < cov_out[i].matched_parish_rows
          /\ cov_out[i].matched_parish_rows < cov_out[i].active_parish_rows

\* the clipped range of a source record, with the documented defaults for
\* missing years
ClippedStart(row) == Max(IF row.from_year = NA THEN 1837 ELSE row.from_year, 1851)
ClippedEnd(row) == Min(IF row.to_year = NA THEN 9999 ELSE row.to_year, 1990)
YearsOf(row) ==
    IF ClippedEnd(row) < ClippedStart(row) THEN 0
    ELSE ClippedEnd(row) - ClippedStart(row) + 1

\* the rows due to the first n source records
RECURSIVE RowsBefore(_, _)
RowsBefore(src, n) == IF n = 0 THEN 0 ELSE RowsBefore(src, n - 1) + YearsOf(src[n])

RowFor(row, year) ==
    [district |-> row.district, parish |-> row.parish,
     matched |-> (row.matched = "True"), year |-> year]

RecordExpanded(src, exp, i, before) ==
    \A k \in 1..YearsOf(src[i]) :
        /\ before + k <= Len(exp)
        /\ exp[before + k] = RowFor(src[i], ClippedStart(src[i]) + k - 1)

\* C3: once the intervals are expanded, every source record has exactly one
\* row for each year y with max(fromYear, 1851) <= y <= min(toYear, 1990),
\* carrying its district, parish and matched flag, and none when that range is
\* empty or inverted; the number of rows is the sum of
\* clippedEnd - clippedStart + 1 over the kept records
C3_ExpansionExact ==
    Expanded =>
        /\ Len(cov_exp) = RowsBefore(cov_src, Len(cov_src))
        /\ \A i \in 1..Len(cov_src) :
              RecordExpanded(cov_src, cov_exp, i, RowsBefore(cov_src, i - 1))

\* a record 1800..1860 expanded to the ten years 1851..1860 next to a record
\* ending in 1830 that gives no row
C3_Witness ==
    /\ pc = "cov_aggregate"
    /\ Len(cov_src) = 2
    /\ cov_src[1].from_year = 1800 /\ cov_src[1].to_year = 1860
    /\ cov_src[2].to_year = 1830
    /\ Len(cov_exp) = 10
    /\ {cov_exp[k].year : k \in 1..Len(cov_exp)} = 1851..1860
    /\ \A k \in 1..Len(cov_exp) : cov_exp[k].parish = cov_src[1].parish


----------------------------------------------------------------------------
(* Claims about the construction run                                        *)

\* a membership interval as the data model reads it: a missing or unreadable
\* start is 1837, a missing or unreadable end is 9999
MemberFrom(r) ==
    IF coerce_year_construct(r.from_year) = NA THEN 1837 ELSE coerce_year_construct(r.from_year)
MemberTo(r) ==
    IF coerce_year_construct(r.to_year) = NA THEN 9999 ELSE coerce_year_construct(r.to_year)
MemberActive(r, year) == MemberFrom(r) <= year /\ year <= MemberTo(r)

RefIds == {gpar[i].ID : i \in 1..Len(gpar)}
PolygonOf(id) == UNION {gpar[i].geometry : i \in {j \in 1..Len(gpar) : gpar[j].ID = id}}

\* the reference parishes matched and active in a district in a year
ContributingIds(district, year) ==
    {con[i].ID : i \in {j \in 1..Len(con) :
        /\ con[j].district = district
        /\ con[j].matched
        /\ con[j].ID \in RefIds
        /\ MemberActive(con[j], year)}}

UnionOfContributing(row, ids) ==
    /\ row.geometry = UNION {PolygonOf(id) : id \in ids}
    /\ row.n_parishes_matched = Cardinality(ids)

\* C10: in every census-year layer, each district row's geometry is the union
\* of the polygons of exactly the reference parishes matched and active in
\* that district in that year, and n_parishes_matched is the number of
\* distinct such parish ids
C10_DissolveExact ==
    \A year \in DOMAIN gpkg : \A k \in 1..Len(gpkg[year]) :
        UnionOfContributing(gpkg[year][k], ContributingIds(gpkg[year][k].district, year))


----------------------------------------------------------------------------
(* Claims about the imputation run                                          *)

\* the rows of the frame that stand for the summary row r
OutputRowsOf(rows, r) ==
    {k \in 1..Len(rows) : rows[k].year = r.year /\ rows[k].district = r.district}

Untouched(o, r) ==
    /\ o.location_imputed = 0
    /\ o.imputation_failed = r.imputation_failed
    /\ o.centroid_x = r.centroid_x
    /\ o.centroid_y = r.centroid_y

UntouchedIn(rows, r) == \A k \in OutputRowsOf(rows, r) : Untouched(rows[k], r)

UsableRows == {i \in 1..Len(df) : df[i].usable_1851_backbone = 1}

\* C4: a row with usable_1851_backbone = 1 is never touched: in every frame
\* appended and in the saved file its row has location_imputed = 0,
\* imputation_failed as in the input and the input's centroid_x and
\* centroid_y, and the saved file holds that row once
C4_UsableRowsUntouched ==
    pc \in {"imp_loop", "imp_concat", "imp_done"} =>
        /\ \A f \in 1..Len(out_frames) : \A i \in UsableRows :
              UntouchedIn(out_frames[f].rows, df[i])
        /\ pc = "imp_done" =>
              \A i \in UsableRows :
                  /\ Cardinality(OutputRowsOf(final.rows, df[i])) = 1
                  /\ UntouchedIn(final.rows, df[i])

\* a saved file where a usable row without centroid shares its year with a
\* row that was imputed
C4_Witness ==
    /\ pc = "imp_done"
    /\ \E i \in UsableRows : \E k \in 1..Len(final.rows) :
          /\ df[i].centroid_x = NA
          /\ final.rows[k].year = df[i].year
          /\ final.rows[k].usable_1851_backbone = 0
          /\ final.rows[k].location_imputed = 1


----------------------------------------------------------------------------
(* Claims about the order of the variants                                   *)

Stage1Done == pc \in {"match_stage1b", "match_combine", "match_done"}

\* the place of a method in the fixed order of stage (a)
MethodRank(method) ==
    CASE method = "exact" -> 1
      [] method = "welsh_variant" -> 2
      [] method = "vowel_variant" -> 3
      [] method = "no_spaces" -> 4
      [] method = "welsh_variant_no_spaces" -> 5
      [] method = "vowel_variant_no_spaces" -> 6
      [] method = "without_with" -> 7
      [] method = "without_with_no_spaces" -> 8
      [] method = "without_on" -> 9
      [] method = "without_nigh" -> 10
      [] method = "without_lower" -> 11
      [] method = "without_lower_no_spaces" -> 12
      [] method = "without_lower_welsh" -> 13
      [] method = "without_upper" -> 14
      [] method = "without_upper_no_spaces" -> 15
      [] method = "without_upper_welsh" -> 16
      [] OTHER -> 0

\* the text before the first " w " clause of a key
BeforeClause(base, w) == StripClause(base, w)
AfterPrefix(base) == Strip(SubSeq(base, 7, Len(base)))

\* the key a variant of the given method must be, for the base key `base`
KeyFits(base, key, method) ==
    CASE method = "exact" -> key = base
      [] method = "welsh_variant" -> key \in SeqRange(make_welsh_variants(base)) \ {base}
      [] method = "vowel_variant" -> key \in SeqRange(make_vowel_variants(base)) \ {base}
      [] method = "no_spaces" -> key = NoSpaces(base) /\ key # base
      [] method = "welsh_variant_no_spaces" ->
            key \in SeqRange(make_welsh_variants(NoSpaces(base))) \ {NoSpaces(base)}
      [] method = "vowel_variant_no_spaces" ->
            key \in SeqRange(make_vowel_variants(NoSpaces(base))) \ {NoSpaces(base)}
      [] method = "without_with" -> key = BeforeClause(base, Txt_with) /\ key # base
      [] method = "without_with_no_spaces" -> key = NoSpaces(BeforeClause(base, Txt_with))
      [] method = "without_on" -> key = BeforeClause(base, Txt_on) /\ key # base
      [] method = "without_nigh" -> key = BeforeClause(base, Txt_nigh) /\ key # base
      [] method \in {"without_lower", "without_upper"} -> key = AfterPrefix(base)
      [] method \in {"without_lower_no_spaces", "without_upper_no_spaces"} ->
            key = NoSpaces(AfterPrefix(base))
      [] method \in {"without_lower_welsh", "without_upper_welsh"} ->
            key \in SeqRange(make_welsh_variants(NoSpaces(AfterPrefix(base))))
      [] OTHER -> FALSE

\* the list starts with the base key and runs through the methods in order
OrderFixed(base, vs) ==
    /\ Len(vs) >= 1 /\ vs[1].key = base /\ vs[1].method = "exact"
    /\ \A i \in 1..Len(vs) : MethodRank(vs[i].method) >= 1 /\ KeyFits(base, vs[i].key, vs[i].method)
    /\ \A i \in 1..(Len(vs) - 1) : MethodRank(vs[i].method) <= MethodRank(vs[i + 1].method)

\* name n was resolved by the variant at position i of vs
ResolvedBy(n, vs, i) ==
    /\ InLookup(lookup, vs[i].key)
    /\ \A m \in 1..(i - 1) : ~InLookup(lookup, vs[m].key)
    /\ stage1.matches[n] = LookupGet(lookup, vs[i].key)
    /\ stage1.methods[n] = vs[i].method

FirstInOrderWins(n, vs) ==
    IF \E i \in 1..Len(vs) : InLookup(lookup, vs[i].key)
    THEN n \in DOMAIN stage1.matches /\ \E i \in 1..Len(vs) : ResolvedBy(n, vs, i)
    ELSE n \notin DOMAIN stage1.matches

\* C11: stage (a) probes the index with the variants of a name in the fixed
\* order base key, Welsh, vowel, no-space (with its Welsh and vowel forms),
\* with-clause stripped (and its no-space form), on-clause stripped,
\* nigh-clause stripped, Lower prefix stripped (no-space, Welsh), Upper prefix
\* stripped (no-space, Welsh); parish and method are those of the first
\* variant in that order that is a key of the index
C11_FirstVariantInOrderWins ==
    Stage1Done =>
        \A n \in VisitedNames(uk) :
            /\ OrderFixed(NormName(n), VariantsOf[n])
            /\ FirstInOrderWins(n, VariantsOf[n])

\* "Lower Stoke" against the references "Stoke" and "Lowerstoke": the no-space
\* variant and the prefix-stripped variant are both keys of the index, under
\* different parishes, and the no-space one decides
C11_Witness ==
    /\ Stage1Done
    /\ \E i \in 1..Len(uk) : uk[i].parish = Name_LowerStoke
    /\ ~InLookup(lookup, NormName(Name_LowerStoke))
    /\ InLookup(lookup, NoSpaces(NormName(Name_LowerStoke)))
    /\ InLookup(lookup, NormName(Name_Stoke))
    /\ LookupGet(lookup, NormName(Name_Stoke)) = 31
    /\ Name_LowerStoke \in DOMAIN stage1.matches
    /\ stage1.matches[Name_LowerStoke] = 33
    /\ stage1.methods[Name_LowerStoke] = "no_spaces"


----------------------------------------------------------------------------
(* Claims about eligibility                                                 *)

\* the interval of the row lies wholly after or wholly before 1851
NoOverlap1851(row) ==
    \/ row.from_year # NA /\ row.from_year > 1851
    \/ row.to_year # NA /\ row.to_year < 1851

NothingRecorded(row) ==
    ~row.matched /\ row.matched_1851_index = NA /\ row.match_method = NoTag

\* C12 as stated: a record whose interval does not overlap 1851 is marked
\* not eligible and is never submitted to the resolver, so its row has
\* matched = false and neither a parish id nor a method
C12_IneligibleNeverMatched ==
    MatchDone =>
        \A i \in 1..Len(uk) :
            NoOverlap1851(uk[i]) => ~uk[i].eligible_1851 /\ NothingRecorded(uk[i])

\* the row carries the outcome of the two stages for its name
ResolvedByName(row) ==
    IF FoundByNeither(row) THEN NothingRecorded(row)
    ELSE row.matched /\ row.matched_1851_index # NA /\ row.match_method # NoTag

\* C12 amended: such a record is marked not eligible, but eligibility gates
\* nothing: its name goes through both stages like any other and the row
\* carries their outcome
C12_IneligibleStillResolved ==
    MatchDone =>
        \A i \in 1..Len(uk) :
            NoOverlap1851(uk[i]) => ~uk[i].eligible_1851 /\ ResolvedByName(uk[i])

\* "Llanvair" from 1900 on, not eligible, matched to the reference "Llanvair"
C12_Witness ==
    /\ MatchDone
    /\ \E i \in 1..Len(uk) :
          /\ uk[i].parish = Name_Llanvair
          /\ uk[i].from_year = 1900
          /\ NoOverlap1851(uk[i])
          /\ ~uk[i].eligible_1851
          /\ uk[i].matched /\ uk[i].matched_1851_index = 12
          /\ uk[i].match_method = "exact"


----------------------------------------------------------------------------
(* Claims about the recorded methods                                        *)

StatedMethods ==
    {"exact", "welsh_variant", "vowel_variant", "no_spaces", "without_with", "without_on",
     "without_nigh", "without_lower", "without_upper", "substring", "unmatched"}

\* the tags make_variants attaches and the tag of the substring stage
RecordedMethods ==
    {"exact", "welsh_variant", "vowel_variant", "no_spaces",
     "welsh_variant_no_spaces", "vowel_variant_no_spaces",
     "without_with", "without_with_no_spaces", "without_on", "without_nigh",
     "without_lower", "without_lower_no_spaces", "without_lower_welsh",
     "without_upper", "without_upper_no_spaces", "without_upper_welsh",
     "substring_match"}

\* C13 as stated: the method of every concordance row is one of exact,
\* welsh_variant, vowel_variant, no_spaces, without_with, without_on,
\* without_nigh, without_lower, without_upper, substring, unmatched
C13_MethodInStatedSet ==
    MatchDone => \A i \in 1..Len(uk) : uk[i].match_method \in StatedMethods

\* C13 amended: the method of a matched row is one of the sixteen tags of
\* make_variants or "substring_match", the method of an unmatched row is
\* null, and no other value is recorded
C13_MethodInRecordedSet ==
    MatchDone =>
        \A i \in 1..Len(uk) :
            IF uk[i].matched THEN uk[i].match_method \in RecordedMethods
            ELSE uk[i].match_method = NoTag

\* "Lower Stoke Hill" against the reference "Stokehill": matched by the
\* no-space form of the prefix-stripped key, a tag outside the stated set
C13_Witness ==
    /\ MatchDone
    /\ \E i \in 1..Len(uk) :
          /\ uk[i].parish = Name_LowerStokeHill
          /\ uk[i].matched /\ uk[i].matched_1851_index = 36
          /\ uk[i].match_method = "without_lower_no_spaces"
          /\ uk[i].match_method \notin StatedMethods


----------------------------------------------------------------------------
(* Claims about missing years                                               *)

\* the interval of a loaded row under the stated defaults: a missing or
\* unreadable start is 1837, a missing or unreadable end is 9999
DefaultedFrom(row) == IF row.from_year = NA THEN 1837 ELSE row.from_year
DefaultedTo(row) == IF row.to_year = NA THEN 9999 ELSE row.to_year
ActiveWithDefaults(row, year) == DefaultedFrom(row) <= year /\ year <= DefaultedTo(row)

\* C14: a record with a missing or unreadable fromYear is treated as
\* starting in 1837 and one with a missing or unreadable toYear as ending in
\* 9999 by every activity test; for the 1851 eligibility test, eligible_1851
\* is the answer for the record with those defaults filled in
C14_EligibilityUsesDefaults ==
    MatchDone =>
        \A i \in 1..Len(uk) : uk[i].eligible_1851 = ActiveWithDefaults(uk[i], REF_YEAR)


----------------------------------------------------------------------------
(* Claims about rows without a source point                                 *)

\* the official table of the row's year holds no name that normalizes to the
\* row's normalized district name
NoOfficialCentroid(r) ==
    \A k \in 1..Len(official[r.year]) :
        std_name(official[r.year][k].G_NAME) # std_name(r.district)

\* the rows without backbone geometry, without a centroid of their own and
\* without an official centroid
SourcelessRows ==
    {i \in 1..Len(df) :
        /\ df[i].usable_1851_backbone = 0
        /\ df[i].centroid_x = NA /\ df[i].centroid_y = NA
        /\ NoOfficialCentroid(df[i])}

MarkedFailed(o) ==
    /\ o.imputation_failed = 1
    /\ o.location_imputed = 0
    /\ o.centroid_x = NA /\ o.centroid_y = NA

\* C15: a row with usable_1851_backbone = 0 that has neither centroid_x /
\* centroid_y nor an official centroid under its normalized name for its
\* year comes out with imputation_failed = 1, location_imputed = 0 and null
\* centroid_x and centroid_y, in the frame of its year and in the saved file;
\* the run goes on: the saved file holds every row of the summary
C15_SourcelessRowsFail ==
    pc \in {"imp_loop", "imp_concat", "imp_done"} =>
        /\ \A f \in 1..Len(out_frames) : \A i \in SourcelessRows :
              \A k \in OutputRowsOf(out_frames[f].rows, df[i]) :
                  MarkedFailed(out_frames[f].rows[k])
        /\ pc = "imp_done" =>
              /\ \A i \in SourcelessRows :
                    /\ Cardinality(OutputRowsOf(final.rows, df[i])) = 1
                    /\ \A k \in OutputRowsOf(final.rows, df[i]) : MarkedFailed(final.rows[k])
              /\ \A i \in 1..Len(df) : OutputRowsOf(final.rows, df[i]) # {}

\* a saved file with a failed row of 1851 beside a row of the same year that
\* was imputed
C15_Witness ==
    /\ pc = "imp_done"
    /\ \E i \in SourcelessRows : \E k \in 1..Len(final.rows) :
          /\ MarkedFailed(final.rows[CHOOSE o \in OutputRowsOf(final.rows, df[i]) : TRUE])
          /\ final.rows[k].year = df[i].year
          /\ final.rows[k].district # df[i].district
          /\ final.rows[k].location_imputed = 1


----------------------------------------------------------------------------
(* Claims about a second run                                                *)

\* C16: a run over the table a previous run saved leaves every row
\* unchanged: it ends, and the table it saves has the rows and the columns
\* of the table it read, so that centroid_x, centroid_y,
\* imputation_source_point, the imputed-from district and the imputed
\* distance of the rows with location_imputed = 1 are not derived again
C16_RerunLeavesTableUnchanged ==
    /\ pc # "imp_failed"
    /\ pc = "imp_done" => final.rows = df /\ final.columns = df_columns


----------------------------------------------------------------------------
(* Claims about the absence of a fuzzy stage                                *)

\* the index key at position k belongs to parish id and either is one of
\* the variants of the name or strictly contains its no-space key bk
KeyAccounts(k, id, variants, bk) ==
    /\ lookup[k].id = id
    /\ \/ \E v \in 1..Len(variants) : variants[v].key = lookup[k].key
       \/ Contains(lookup[k].key, bk) /\ lookup[k].key # bk

AccountedFor(row) ==
    \E k \in 1..Len(lookup) :
        KeyAccounts(k, row.matched_1851_index, VariantsOf[row.parish], BaseKeyOf(row.parish))

\* C17: no fuzzy or edit-distance step takes part: for every row marked
\* matched, the matched parish owns an index key that equals one of the
\* variants of the row's name or strictly contains the name's no-space key
C17_NoFuzzyStep ==
    MatchDone => \A i \in 1..Len(uk) : uk[i].matched => AccountedFor(uk[i])

\* "Stoke nigh Shaw" beside the reference "Stoke with Shaw" alone: two
\* edits away from the key "stokewithshaw", no variant of it in the index,
\* and the row stays unmatched
C17_Witness ==
    /\ MatchDone
    /\ Len(par) = 1 /\ par[1].PLA = Name_StokeWithShaw
    /\ \E k \in 1..Len(lookup) :
          levenshtein_distance(BaseKeyOf(Name_StokeNighShaw), lookup[k].key) = 2
    /\ \E i \in 1..Len(uk) :
          /\ uk[i].parish = Name_StokeNighShaw
          /\ ~uk[i].matched /\ uk[i].matched_1851_index = NA


----------------------------------------------------------------------------
(* Claims about the counts of a group                                       *)

\* the rows of exp of one (year, district) group, and the matched ones
GroupOf(year, district) ==
    {k \in 1..Len(cov_exp) : cov_exp[k].year = year /\ cov_exp[k].district = district}
MatchedOf(year, district) == {k \in GroupOf(year, district) : cov_exp[k].matched}

\* the source records of a district active in a year, and the ones among
\* them that were resolved as matched
ActiveRecords(year, district) ==
    {i \in 1..Len(cov_src) :
        /\ cov_src[i].district = district
        /\ ClippedStart(cov_src[i]) <= year /\ year <= ClippedEnd(cov_src[i])}
MatchedRecords(year, district) ==
    {i \in ActiveRecords(year, district) : cov_src[i].matched = "True"}

CountsOf(o, group, matched) ==
    /\ o.active_parish_rows = Cardinality(group)
    /\ o.matched_parish_rows = Cardinality(matched)
    /\ (o.usable_1851_backbone = 1) = (o.matched_parish_rows > 0)
    /\ o.usable_1851_backbone \in {0, 1}

\* C18: the row of a (year, district) group has active_parish_rows = the
\* number of rows of the group and matched_parish_rows = the number of them
\* with matched true, so each source record active in the year adds 1 to the
\* first and, when it is unmatched, 0 to the second; usable_1851_backbone is 1
\* exactly when matched_parish_rows > 0, and the integrity check counts no
\* usable row without a matched one
C18_GroupCounts ==
    /\ pc \in {"cov_done", "qa_done", "qa_failed"} =>
          /\ \A i \in 1..Len(cov_out) :
                /\ CountsOf(cov_out[i], GroupOf(cov_out[i].year, cov_out[i].district),
                            MatchedOf(cov_out[i].year, cov_out[i].district))
                /\ CountsOf(cov_out[i], ActiveRecords(cov_out[i].year, cov_out[i].district),
                            MatchedRecords(cov_out[i].year, cov_out[i].district))
          /\ \A k \in 1..Len(cov_exp) :
                cov_exp[k].district # NoName =>
                    \E i \in 1..Len(cov_out) :
                        /\ cov_out[i].year = cov_exp[k].year
                        /\ cov_out[i].district = cov_exp[k].district
    /\ pc = "qa_done" => qa_summary.usable1_but_matched0 = 0

\* a checked file where an unmatched record stands alone in 1851 (1 active
\* row, none matched, not usable) and beside a matched one in 1855 (2 active
\* rows, 1 matched, usable)
C18_Witness ==
    /\ pc = "qa_done"
    /\ \E i, j \in 1..Len(cov_out) :
          /\ cov_out[i].year = 1851 /\ cov_out[j].year = 1855
          /\ cov_out[i].district = cov_out[j].district
          /\ cov_out[i].active_parish_rows = 1 /\ cov_out[i].matched_parish_rows = 0
          /\ cov_out[i].usable_1851_backbone = 0
          /\ cov_out[j].active_parish_rows = 2 /\ cov_out[j].matched_parish_rows = 1
          /\ cov_out[j].usable_1851_backbone = 1


----------------------------------------------------------------------------
(* Claims about the source district of an imputed row                       *)

\* the districts of the layer rd_<year>_constructed of the geopackage: the
\* layer of 1851 is the one the targets are read from; the district "T2" is
\* dissolved after 1851 and has no geometry in the later layers
LayerDistricts(year) ==
    IF year = 1851 THEN {targets[i].district : i \in 1..Len(targets)}
    ELSE {targets[i].district : i \in 1..Len(targets)} \ {"T2"}

\* the district the run recorded for a row, in the column that holds it
RecordedSource(o) ==
    IF o.imputed_from_district # NoTag THEN o.imputed_from_district
    ELSE o.imputed_from_district_y

ImputedRows == {k \in 1..Len(final.rows) : final.rows[k].location_imputed = 1}

\* C19 as stated: the district recorded as the source of a row imputed in
\* census year Y has constructed geometry in that same year Y
C19_SourceInLayerOfSameYear ==
    pc = "imp_done" =>
        \A k \in ImputedRows :
            RecordedSource(final.rows[k]) \in LayerDistricts(final.rows[k].year)

\* C19 amended: the district recorded as the source of an imputed row is a
\* district of the layer of 1851, whatever the census year of the row
C19_SourceInLayerOf1851 ==
    pc = "imp_done" =>
        \A k \in ImputedRows : RecordedSource(final.rows[k]) \in LayerDistricts(1851)

\* a row of 1861 imputed from "T2", which has geometry in 1851 only
C19_Witness ==
    /\ pc = "imp_done"
    /\ \E k \in ImputedRows :
          /\ final.rows[k].year = 1861
          /\ RecordedSource(final.rows[k]) = "T2"
          /\ "T2" \in LayerDistricts(1851)
          /\ "T2" \notin LayerDistricts(1861)


----------------------------------------------------------------------------
(* Claims about the recorded district and distance                          *)

\* the target at position t is at minimum distance from the point p
IsNearest(t, p) ==
    \A j \in 1..Len(targets) : dist_m(p, targets[t].geometry) <= dist_m(p, targets[j].geometry)

\* the cells `district` and `km` name a target nearest to p and its distance
\* in metres divided by 1000
HoldsNearest(district, km, p) ==
    /\ district # NoTag /\ km # NA
    /\ \E t \in 1..Len(targets) :
          /\ targets[t].district = district
          /\ IsNearest(t, p)
          /\ km = dist_m(p, targets[t].geometry) \div 1000

\* the source point of a row of the summary
SourcePointOf(r) == SourceOf(r, official[r.year]).geom

\* C20: for every row marked location_imputed = 1 the output columns
\* imputed_from_district and imputed_distance_km are not null and hold the
\* target whose centroid is nearest to the row's source point and that
\* distance in metres divided by 1000
C20_NamedColumnsHoldNearest ==
    pc = "imp_done" =>
        \A i \in 1..Len(df) : \A k \in OutputRowsOf(final.rows, df[i]) :
            final.rows[k].location_imputed = 1 =>
                HoldsNearest(final.rows[k].imputed_from_district,
                             final.rows[k].imputed_distance_km, SourcePointOf(df[i]))


----------------------------------------------------------------------------
(* Claims about the coordinates of an imputed row                           *)

\* the row carries the centroid of the target whose district it records
AtTargetCentroid(o) ==
    \E t \in 1..Len(targets) :
        /\ targets[t].district = RecordedSource(o)
        /\ o.centroid_x = targets[t].geometry.x
        /\ o.centroid_y = targets[t].geometry.y

\* C21: every row marked location_imputed = 1, whether its source point was
\* from_existing_xy or from_official_name, has centroid_x and centroid_y equal
\* to the coordinates of the centroid of the chosen target district
C21_CentroidIsTargetCentroid ==
    pc = "imp_done" => \A k \in ImputedRows : AtTargetCentroid(final.rows[k])


----------------------------------------------------------------------------
(* Claims about the choice of the source point                              *)

\* the first official centroid of the year whose normalized name is that of
\* the district, or NoPoint
OfficialPointOf(year, district) ==
    LET hits == {i \in 1..Len(official[year]) :
                    std_name(official[year][i].G_NAME) = std_name(district)}
    IN IF hits = {} THEN NoPoint
       ELSE official[year][CHOOSE i \in hits : \A j \in hits : i <= j].o_centroid

\* the distance the run recorded for a row, in the column that holds it
RecordedDistance(o) ==
    IF o.imputed_distance_km # NA THEN o.imputed_distance_km ELSE o.imputed_distance_km_y

\* the output row o was imputed from the point p under the tag: the recorded
\* distance is the one between p and the recorded target
ImputedFrom(o, p, tag) ==
    /\ o.location_imputed = 1
    /\ o.imputation_source_point = tag
    /\ \E t \in 1..Len(targets) :
          /\ targets[t].district = RecordedSource(o)
          /\ RecordedDistance(o) = dist_m(p, targets[t].geometry) \div 1000

\* C22: for every row with usable_1851_backbone = 0 the source point is the
\* row's own (centroid_x, centroid_y), tagged from_existing_xy, whenever both
\* are non-null; only otherwise is it the official centroid found by the
\* normalized district name for that year, tagged from_official_name; a row
\* with neither has no source point
C22_OwnPointBeforeOfficial ==
    pc = "imp_done" =>
        \A i \in 1..Len(df) : \A k \in OutputRowsOf(final.rows, df[i]) :
            df[i].usable_1851_backbone = 0 =>
                IF df[i].centroid_x # NA /\ df[i].centroid_y # NA
                THEN ImputedFrom(final.rows[k], Pt(df[i].centroid_x, df[i].centroid_y),
                                 "from_existing_xy")
                ELSE IF OfficialPointOf(df[i].year, df[i].district) # NoPoint
                     THEN ImputedFrom(final.rows[k],
                                      OfficialPointOf(df[i].year, df[i].district),
                                      "from_official_name")
                     ELSE /\ final.rows[k].location_imputed = 0
                          /\ final.rows[k].imputation_source_point = NoTag

\* a finished run with a row imputed from its own point although the year's
\* official file has a centroid under its name, and a row with only one
\* coordinate imputed from the official centroid
C22_Witness ==
    /\ pc = "imp_done"
    /\ \E i \in 1..Len(df) : \E k \in OutputRowsOf(final.rows, df[i]) :
          /\ df[i].usable_1851_backbone = 0
          /\ df[i].centroid_x # NA /\ df[i].centroid_y # NA
          /\ OfficialPointOf(df[i].year, df[i].district) # NoPoint
          /\ final.rows[k].imputation_source_point = "from_existing_xy"
    /\ \E i \in 1..Len(df) : \E k \in OutputRowsOf(final.rows, df[i]) :
          /\ df[i].usable_1851_backbone = 0
          /\ df[i].centroid_x # NA /\ df[i].centroid_y = NA
          /\ final.rows[k].imputation_source_point = "from_official_name"


----------------------------------------------------------------------------
(* Claims about the dominant parish of a district and year (SpecSummary)    *)

\* the parishes of the matched rows of the concordance active in the district
\* in the year
MatchedParishes(district, year) ==
    {con[i].ID : i \in {j \in 1..Len(con) :
        /\ con[j].district = district
        /\ con[j].matched /\ con[j].ID # NA
        /\ active_at_year(con[j], year)}}

\* the area of the reference polygon of a parish
RefArea(id) == Cardinality(PolygonOf(id))

LargestOf(ids) == {id \in ids : \A other \in ids : RefArea(other) <= RefArea(id)}

\* C23: for every district and census year with a matched active row the
\* dominant parish is a matched parish of the group with the largest
\* reference-polygon area, and among several of the largest area it is the
\* one with the lowest id, whatever the order of the rows of the concordance
C23_DominantIsLargestLowestId ==
    pc = "sum_done" =>
        \A k \in 1..Len(rd_summary) :
            rd_summary[k].matched_parish_rows > 0 =>
                /\ rd_summary[k].dominant_parish_1851_id
                      \in LargestOf(MatchedParishes(rd_summary[k].district, rd_summary[k].year))
                /\ \A id \in LargestOf(MatchedParishes(rd_summary[k].district, rd_summary[k].year)) :
                      rd_summary[k].dominant_parish_1851_id <= id

\* the sum of the areas of a set of parishes, each counted once
RECURSIVE AreaOfParishes(_)
AreaOfParishes(ids) ==
    IF ids = {} THEN 0
    ELSE RefArea(CHOOSE id \in ids : TRUE)
         + AreaOfParishes(ids \ {CHOOSE id \in ids : TRUE})

\* the quotient q equals a / b
RatioIs(q, a, b) == q.den # 0 /\ b # 0 /\ q.num * b = a * q.den

\* C24: for every district and census year with a dominant parish the share
\* is the area of the dominant parish divided by the sum of the areas of the
\* distinct matched parishes of the group, also when a parish id stands in
\* several matched rows; the share is above 0, at most 1, and 1 when the
\* group has a single matched parish
C24_ShareOverDistinctParishes ==
    pc = "sum_done" =>
        \A k \in 1..Len(rd_summary) :
            rd_summary[k].dominant_parish_1851_id # NA =>
                /\ RatioIs(rd_summary[k].dominant_parish_area_share,
                           RefArea(rd_summary[k].dominant_parish_1851_id),
                           AreaOfParishes(MatchedParishes(rd_summary[k].district,
                                                          rd_summary[k].year)))
                /\ rd_summary[k].dominant_parish_area_share.num > 0
                /\ rd_summary[k].dominant_parish_area_share.num
                      <= rd_summary[k].dominant_parish_area_share.den
                /\ Cardinality(MatchedParishes(rd_summary[k].district, rd_summary[k].year)) = 1
                      => rd_summary[k].dominant_parish_area_share.num
                            = rd_summary[k].dominant_parish_area_share.den


----------------------------------------------------------------------------
(* Claims about the summary beside the constructed layers (SpecSummary)     *)

\* the layer of the year holds a row for the district
InLayer(year, district) ==
    \E i \in 1..Len(gpkg[year]) : gpkg[year][i].district = district

\* a matched record of the concordance is active in the district in the year
HasMatchedActive(year, district) ==
    \E i \in 1..Len(con) :
        /\ con[i].district = district
        /\ con[i].matched
        /\ active_at_year(con[i], year)

\* C27: in every census year a district of the summary has
\* usable_1851_backbone = 1 exactly when the layer of that year holds a
\* geometry row for it; a layer holds no row for a district without a matched
\* active parish and no row with an empty geometry; every usable row has a
\* centroid_x and a centroid_y
C27_UsableIffGeometryRow ==
    pc = "sum_done" =>
        /\ \A k \in 1..Len(rd_summary) :
              /\ (rd_summary[k].usable_1851_backbone = 1)
                    = InLayer(rd_summary[k].year, rd_summary[k].district)
              /\ rd_summary[k].usable_1851_backbone = 1
                    => rd_summary[k].centroid_x # NA /\ rd_summary[k].centroid_y # NA
        /\ \A y \in 1..Len(CENSUS_YEARS) : \A i \in 1..Len(gpkg[CENSUS_YEARS[y]]) :
              /\ gpkg[CENSUS_YEARS[y]][i].geometry # {}
              /\ HasMatchedActive(CENSUS_YEARS[y], gpkg[CENSUS_YEARS[y]][i].district)

\* a finished summary where, in one census year, a district with a matched
\* active parish is usable and in the layer with a centroid, and a district
\* with unmatched records only is not usable and not in the layer
C27_Witness ==
    /\ pc = "sum_done"
    /\ \E k, m \in 1..Len(rd_summary) :
          /\ rd_summary[k].year = rd_summary[m].year
          /\ rd_summary[k].usable_1851_backbone = 1
          /\ InLayer(rd_summary[k].year, rd_summary[k].district)
          /\ rd_summary[k].centroid_x # NA
          /\ rd_summary[m].usable_1851_backbone = 0
          /\ rd_summary[m].active_parish_rows > 0
          /\ ~InLayer(rd_summary[m].year, rd_summary[m].district)
          /\ rd_summary[m].centroid_x = NA


----------------------------------------------------------------------------
(* Claims about the vowel variants registered in the index (SpecMatch)      *)

\* the four single-class substitutions of a key, each on its own condition
IndependentVowelVariants(k) ==
    (IF Contains(k, <<"a">>) THEN {Replace(k, <<"a">>, <<"e">>)} ELSE {})
    \cup (IF Contains(k, <<"e">>) THEN {Replace(k, <<"e">>, <<"a">>)} ELSE {})
    \cup (IF Contains(k, <<"e">>) THEN {Replace(k, <<"e">>, <<"i">>)} ELSE {})
    \cup (IF Contains(k, <<"i">>) THEN {Replace(k, <<"i">>, <<"e">>)} ELSE {})

\* the vowel variants generated for the key are the four substitutions, and
\* each of them is a key of the index
VowelVariantsRegistered(k) ==
    /\ SeqRange(make_vowel_variants(k)) = IndependentVowelVariants(k)
    /\ \A v \in IndependentVowelVariants(k) : InLookup(lookup, v)

\* C25: for every key the vowel variant generator yields each of the four
\* single-class substitutions that changes the key, independently: a->e when
\* the key contains a, e->a when it contains e, e->i when it contains e, i->e
\* when it contains i; no variant combines two classes
C25_VowelVariantsIndependent ==
    pc = "match_stage1" =>
        \A i \in 1..Len(par) : \A n \in 1..Len(keys_to_add(par[i].PLA)) :
            keys_to_add(par[i].PLA)[n] # <<>> =>
                VowelVariantsRegistered(keys_to_add(par[i].PLA)[n])


----------------------------------------------------------------------------
(* Claims about the division suffixes of reference names (SpecMatch)        *)

\* the administrative division suffixes, as the reference file writes them
DivisionSuffixes ==
    { <<"U","P","P","E","R"," ","D","I","V","I","S","I","O","N">>,
      <<"L","O","W","E","R"," ","D","I","V","I","S","I","O","N">>,
      <<"C","I","T","R","A"," ","D","I","V","I","S","I","O","N">>,
      <<"U","L","T","R","A"," ","D","I","V","I","S","I","O","N">>,
      <<"C","I","T","R","A"," ","A","N","D"," ",
        "U","L","T","R","A"," ","D","I","V","I","S","I","O","N","S">> }

\* the name is "X - <suffix>" with X its first n - 1 characters
DivisionNameAt(pla, n, suffix) ==
    n > 1 /\ SubSeq(pla, n, Len(pla)) = <<" ","-"," ">> \o suffix

\* the suffix-stripped key of the reference name is the key of X, and the
\* index holds it
StrippedKeyIsKeyOf(pla, x) ==
    /\ key_no_suffix(make_key_improved(pla, FALSE)) = make_key_improved(x, FALSE)
    /\ InLookup(lookup, make_key_improved(x, FALSE))

\* C26: for every reference name "X - <suffix>", <suffix> one of UPPER
\* DIVISION, LOWER DIVISION, CITRA DIVISION, ULTRA DIVISION, CITRA AND ULTRA
\* DIVISIONS, the division-suffix-stripped key registered in the index equals
\* the normalized key of X
C26_SuffixStrippedKeyIsStem ==
    pc = "match_stage1" =>
        \A i \in 1..Len(par) : \A suffix \in DivisionSuffixes :
            \A n \in 1..Len(par[i].PLA) :
                DivisionNameAt(par[i].PLA, n, suffix) =>
                    StrippedKeyIsKeyOf(par[i].PLA, SubSeq(par[i].PLA, 1, n - 1))


----------------------------------------------------------------------------
(* Claims about what the outcome of a name depends on (SpecMatch)           *)

\* the outcome of the two stages for a name taken alone, from the result s1
\* of stage 1 and the result s1b of stage 1b: stage 1b counts when stage 1
\* finds nothing
OutcomeFrom(s1, s1b) ==
    IF s1.id # NA THEN [id |-> s1.id, method |-> s1.method]
    ELSE IF s1b.id # NA THEN [id |-> s1b.id, method |-> s1b.method]
    ELSE [id |-> NA, method |-> NoTag]

OutcomeOfName(parish_name) ==
    IF parish_name = NaN THEN [id |-> NA, method |-> NoTag]
    ELSE OutcomeFrom(Stage1Result(lookup, parish_name), Stage1bResult(lookup, parish_name))

\* the row carries the outcome o
CarriesOutcome(row, o) == row.matched_1851_index = o.id /\ row.match_method = o.method

\* C28: matching depends on the place name alone: the rows of one parish name
\* carry the same matched parish and the same method whatever their district
\* and interval, and the outcome of a name is the one the stages give that
\* name by itself, whichever other names and however many records the source
\* table holds
C28_OutcomeDependsOnNameOnly ==
    MatchDone =>
        /\ \A i, j \in 1..Len(uk) :
              uk[i].parish = uk[j].parish =>
                  /\ uk[i].matched_1851_index = uk[j].matched_1851_index
                  /\ uk[i].match_method = uk[j].match_method
                  /\ uk[i].matched = uk[j].matched
        /\ \A i \in 1..Len(uk) : CarriesOutcome(uk[i], OutcomeOfName(uk[i].parish))

\* a concordance with two matched rows of one name in different districts
\* and intervals, one of them not eligible in 1851, and one with a row of
\* another name beside a matched one
C28_Witness ==
    /\ MatchDone
    /\ \E i, j \in 1..Len(uk) :
          /\ uk[i].parish = uk[j].parish
          /\ uk[i].district # uk[j].district
          /\ uk[i].from_year # uk[j].from_year
          /\ uk[i].eligible_1851 /\ ~uk[j].eligible_1851
          /\ uk[i].matched /\ uk[j].matched
          /\ uk[i].matched_1851_index = uk[j].matched_1851_index


----------------------------------------------------------------------------
(* Claims about the rows and the flags of the saved table (SpecImpute)      *)

\* C29: the saved table holds exactly one row for each row of the summary:
\* the merge on row_id neither repeats nor drops a row, also when two target
\* centroids are equally far from a source point
C29_OneOutputRowPerInputRow ==
    pc = "imp_done" =>
        /\ Len(final.rows) = Len(df)
        /\ \A i \in 1..Len(df) : Cardinality(OutputRowsOf(final.rows, df[i])) = 1

\* C30: after a run over a summary without imputation columns every row with
\* usable_1851_backbone = 0 has exactly one of location_imputed = 1 and
\* imputation_failed = 1, and no row has both
C30_ExactlyOneFlag ==
    pc = "imp_done" =>
        \A k \in 1..Len(final.rows) :
            /\ ~(final.rows[k].location_imputed = 1 /\ final.rows[k].imputation_failed = 1)
            /\ final.rows[k].usable_1851_backbone = 0
                  => (final.rows[k].location_imputed = 1) # (final.rows[k].imputation_failed = 1)

\* a saved table with an imputed row and a failed row among the rows of one
\* census year
C30_Witness ==
    /\ pc = "imp_done"
    /\ \E k, m \in 1..Len(final.rows) :
          /\ final.rows[k].year = final.rows[m].year
          /\ final.rows[k].usable_1851_backbone = 0
          /\ final.rows[k].location_imputed = 1 /\ final.rows[k].imputation_failed = 0
          /\ final.rows[m].usable_1851_backbone = 0
          /\ final.rows[m].location_imputed = 0 /\ final.rows[m].imputation_failed = 1

====
